---- MODULE Spec2Model ----
(***************************************************************************)
(* Verification model of the multi-camera directing UI:                    *)
(*   - SceneViewerTest (relation table, camera recommendation),            *)
(*   - LightweightSceneViewer (point-cloud sampler, outline extraction),   *)
(*   - TrackingService (WebSocket client with bounded reconnection).       *)
(*                                                                         *)
(* Numbers.  World coordinates of cameras and subjects are integers and    *)
(* camera directions are horizontal integer vectors.  Scores are           *)
(* fixed-point with FixScale units per 1.0; square roots are integer       *)
(* (floor) square roots.  Frustum containment is decided exactly on        *)
(* squared integer quantities.                                             *)
(***************************************************************************)
EXTENDS Integers, Sequences, FiniteSets, TLC

(***************************************************************************)
(* Bounds of the model                                                     *)
(***************************************************************************)
MaxPersons == 2
MaxCameras == 2

(***************************************************************************)
(* Generic helpers                                                         *)
(***************************************************************************)
Range(s) == {s[i] : i \in DOMAIN s}

Min(a, b) == IF a <= b THEN a ELSE b

Max(a, b) == IF a >= b THEN a ELSE b

Abs(a) == IF a < 0 THEN -a ELSE a

\* ceil(a / b) for a >= 0, b > 0
CeilDiv(a, b) == (a + b - 1) \div b

RECURSIVE SqrtIter(_, _, _)
SqrtIter(n, lo, hi) ==
    IF lo >= hi THEN lo
    ELSE LET mid == (lo + hi + 1) \div 2
         IN  IF mid * mid <= n THEN SqrtIter(n, mid, hi)
                               ELSE SqrtIter(n, lo, mid - 1)

\* floor(sqrt(n)) for n >= 0
ISqrt(n) == SqrtIter(n, 0, Min(n, 46340))

\* Injective sequences over S of length 0..n
RECURSIVE InjSeqs(_, _)
InjSeqs(S, n) ==
    IF n = 0 THEN {<<>>}
    ELSE LET shorter == InjSeqs(S, n - 1)
         IN  shorter \cup
             {Append(s, x) : <<s, x>> \in
                 {p \in shorter \X S : Len(p[1]) = n - 1 /\ p[2] \notin Range(p[1])}}

\* All sequences over S of length 0..n
RECURSIVE SeqsUpTo(_, _)
SeqsUpTo(S, n) ==
    IF n = 0 THEN {<<>>}
    ELSE LET shorter == SeqsUpTo(S, n - 1)
         IN  shorter \cup
             {Append(s, x) : <<s, x>> \in {p \in shorter \X S : Len(p[1]) = n - 1}}

(***************************************************************************)
(* JavaScript objects used as dictionaries.  An object is the sequence of  *)
(* its own properties [k, v] in insertion order.  Object.keys and          *)
(* Object.entries list the integer-like keys ("0", "1", ...) first, in     *)
(* ascending numeric order, then the other string keys in insertion order. *)
(***************************************************************************)
IndexKeyNum == ("0" :> 0) @@ ("1" :> 1) @@ ("2" :> 2) @@ ("3" :> 3)

IsIndexKey(k) == k \in DOMAIN IndexKeyNum

EmptyObj == <<>>

ObjHas(obj, k) == \E i \in DOMAIN obj : obj[i].k = k

ObjGet(obj, k) == obj[CHOOSE i \in DOMAIN obj : obj[i].k = k].v

ObjSet(obj, k, v) ==
    IF ObjHas(obj, k)
    THEN [i \in DOMAIN obj |-> IF obj[i].k = k THEN [k |-> k, v |-> v] ELSE obj[i]]
    ELSE Append(obj, [k |-> k, v |-> v])

RECURSIVE SortedIndexKeys(_)
SortedIndexKeys(S) ==
    IF S = {} THEN <<>>
    ELSE LET m == CHOOSE k \in S : \A o \in S : IndexKeyNum[k] <= IndexKeyNum[o]
         IN  <<m>> \o SortedIndexKeys(S \ {m})

RECURSIVE StringKeysInOrder(_)
StringKeysInOrder(obj) ==
    IF obj = <<>> THEN <<>>
    ELSE IF IsIndexKey(Head(obj).k)
         THEN StringKeysInOrder(Tail(obj))
         ELSE <<Head(obj).k>> \o StringKeysInOrder(Tail(obj))

ObjectKeys(obj) ==
    SortedIndexKeys({obj[i].k : i \in {j \in DOMAIN obj : IsIndexKey(obj[j].k)}})
        \o StringKeysInOrder(obj)

KeySet(obj) == {obj[i].k : i \in DOMAIN obj}

(***************************************************************************)
(* Geometry: THREE.PerspectiveCamera(fov, aspect, near, far) at a position *)
(* looking along a direction, and Frustum.containsPoint                    *)
(***************************************************************************)
Vec(x, y, z) == <<x, y, z>>

Sub(p, q) == <<p[1] - q[1], p[2] - q[2], p[3] - q[3]>>

Dot(p, q) == p[1] * q[1] + p[2] * q[2] + p[3] * q[3]

\* Camera x axis (unnormalised): up x z with up = (0,1,0), z = -direction
CamRight(dir) == <<-dir[3], 0, dir[1]>>

\* Camera y axis (unnormalised): z x x
CamUp(dir) ==
    <<-(dir[1] * dir[2]), dir[1] * dir[1] + dir[3] * dir[3], -(dir[2] * dir[3])>>

\* fov = 60 degrees: tan(fov/2)^2 = 1/3; aspect = 16/9; near = 0.1; far = 100
FrustumContains(camera, point) ==
    LET r  == Sub(point, camera.position)
        a  == Dot(r, camera.direction)
        b  == Dot(r, CamRight(camera.direction))
        c  == Dot(r, CamUp(camera.direction))
        nD == Dot(camera.direction, camera.direction)
        nX == Dot(CamRight(camera.direction), CamRight(camera.direction))
    IN  /\ a > 0
        /\ 100 * a * a >= nD
        /\ a * a <= 10000 * nD
        /\ 3 * c * c <= a * a * nX
        /\ 243 * b * b * nD <= 256 * a * a * nX

(***************************************************************************)
(* Inputs of the viewer: camera poses of the reconstruction, tracking      *)
(* payloads and camera-list payloads of the tracking feed                  *)
(***************************************************************************)
CameraPoses ==
    {[position |-> Vec(0, 0, 5),  direction |-> Vec(0, 0, -1)],
     [position |-> Vec(5, 0, 0),  direction |-> Vec(-1, 0, 0)],
     [position |-> Vec(-5, 0, 0), direction |-> Vec(1, 0, 0)]}

SubjectPositions == {Vec(0, 0, 0), Vec(0, 9, 0)}

SubjectDirections == {Vec(0, 0, 1)}

PersonIds == {"1", "2"}

FeedCameraIds == {"cam_a", "cam_b"}

\* cameras.json: the frames of the loaded scene, in file order
CameraFiles ==
    {<<[position |-> Vec(5, 0, 0),  direction |-> Vec(-1, 0, 0)],
       [position |-> Vec(-5, 0, 0), direction |-> Vec(1, 0, 0)]>>}

\* persons of a payload {timestamp, persons: [...]}, with distinct subject ids
PersonsOf(ids, poses) ==
    [i \in DOMAIN ids |->
        [id |-> ids[i], position |-> poses[i][1], direction |-> poses[i][2]]]

PersonsPayloads ==
    {PersonsOf(p[1], p[2]) : p \in
        {q \in InjSeqs(PersonIds, MaxPersons) \X
               SeqsUpTo(SubjectPositions \X SubjectDirections, MaxPersons) :
            Len(q[1]) = Len(q[2])}}

\* generateDummyPersonData
DummyPersonData ==
    <<[id |-> "person_1", position |-> Vec(0, 0, 0), direction |-> Vec(1, 0, 0)]>>

\* cameras[index.toString()] = {position, direction, fov: 60, ...}
RECURSIVE CamerasFromFrames(_)
CamerasFromFrames(frames) ==
    IF frames = <<>> THEN EmptyObj
    ELSE ObjSet(CamerasFromFrames(SubSeq(frames, 1, Len(frames) - 1)),
                CHOOSE k \in DOMAIN IndexKeyNum : IndexKeyNum[k] = Len(frames) - 1,
                frames[Len(frames)])

\* cameras.forEach(cam => camerasObj[cam.id] = {position, direction, ...})
RECURSIVE CamerasFromFeed(_, _)
CamerasFromFeed(ids, poses) ==
    IF ids = <<>> THEN EmptyObj
    ELSE ObjSet(CamerasFromFeed(SubSeq(ids, 1, Len(ids) - 1),
                                SubSeq(poses, 1, Len(poses) - 1)),
                ids[Len(ids)], poses[Len(poses)])

\* {type: 'cameras_info', cameras: [...]} with distinct camera ids
CamerasPayloads ==
    {[ids |-> p[1], poses |-> p[2]] : p \in
        {q \in InjSeqs(FeedCameraIds, MaxCameras) \X InjSeqs(CameraPoses, MaxCameras) :
            Len(q[1]) = Len(q[2])}}

(***************************************************************************)
(* Quality scorer (body of calculateCameraPersonRelations)                 *)
(***************************************************************************)
\* Fixed-point units per 1.0
FixScale == 100

\* distance = cameraPosition.distanceTo(personPosition), in fixed point
DistanceFix(camera, person) ==
    ISqrt(Dot(Sub(person.position, camera.position),
              Sub(person.position, camera.position)) * FixScale * FixScale)

\* The projection divides by the view depth; depth 0 gives NaN or Infinity
ProjectionUndefined(camera, person) ==
    Dot(Sub(person.position, camera.position), camera.direction) = 0

\* centerOffset = sqrt(ndc.x^2 + ndc.y^2) of personPosition.project(cam)
CenterOffsetFix(camera, person) ==
    LET r  == Sub(person.position, camera.position)
        a  == Dot(r, camera.direction)
        b  == Dot(r, CamRight(camera.direction))
        c  == Dot(r, CamUp(camera.direction))
        nD == Dot(camera.direction, camera.direction)
        nX == Dot(CamRight(camera.direction), CamRight(camera.direction))
    IN  IF a = 0 THEN 0
        ELSE ISqrt((3 * (81 * b * b * nD + 256 * c * c) * FixScale * FixScale)
                       \div (256 * nX * a * a))

\* angleScore = personDir.dot(camToPersonDir) * 0.5 + 0.5
AngleScoreFix(camera, person) ==
    LET r    == Sub(person.position, camera.position)
        dist == DistanceFix(camera, person)
        dot  == IF dist = 0 THEN 0
                ELSE (Dot(person.direction, r) * FixScale * FixScale) \div dist
    IN  (dot + FixScale) \div 2

OptimalDistance == 5

\* distanceScore = 1 - min(1, |distance - optimal| / optimal)
DistanceScoreFix(camera, person) ==
    FixScale - Min(FixScale,
                   Abs(DistanceFix(camera, person) - OptimalDistance * FixScale)
                       \div OptimalDistance)

\* centerScore = 1 - min(1, centerOffset)
CenterScoreFix(camera, person) ==
    FixScale - Min(FixScale, CenterOffsetFix(camera, person))

\* qualityScore = distanceScore*0.4 + centerScore*0.3 + angleScore*0.3,
\* in units of 1/(10*FixScale)
QualityScoreFix(camera, person) ==
    4 * DistanceScoreFix(camera, person)
        + 3 * CenterScoreFix(camera, person)
        + 3 * AngleScoreFix(camera, person)

ShotType(camera, person) ==
    LET d2 == Dot(Sub(person.position, camera.position),
                  Sub(person.position, camera.position))
    IN  IF d2 < 9 THEN "closeup" ELSE IF d2 < 49 THEN "medium" ELSE "wide"

\* The record stored as personRelations[cameraId]
Relation(camera, person) ==
    [isVisible      |-> FrustumContains(camera, person.position),
     distance       |-> DistanceFix(camera, person),
     centerOffset   |-> CenterOffsetFix(camera, person),
     angleScore     |-> AngleScoreFix(camera, person),
     qualityScore   |-> IF ProjectionUndefined(camera, person) THEN 0
                        ELSE QualityScoreFix(camera, person),
     qualityIsNaN   |-> ProjectionUndefined(camera, person),
     shotType       |-> ShotType(camera, person)]

\* Object.keys(cameras).forEach(cameraId => personRelations[cameraId] = {...})
RECURSIVE PersonRelationsOver(_, _, _)
PersonRelationsOver(keys, cameras, person) ==
    IF keys = <<>> THEN EmptyObj
    ELSE LET rest == PersonRelationsOver(SubSeq(keys, 1, Len(keys) - 1), cameras, person)
             k    == keys[Len(keys)]
         IN  ObjSet(rest, k, Relation(ObjGet(cameras, k), person))

PersonRelations(cameras, person) ==
    PersonRelationsOver(ObjectKeys(cameras), cameras, person)

\* personsData.forEach(person => relations[person.id] = personRelations)
RECURSIVE calculateCameraPersonRelations(_, _)
calculateCameraPersonRelations(cameras, persons) ==
    IF persons = <<>> THEN EmptyObj
    ELSE LET rest == calculateCameraPersonRelations(cameras,
                         SubSeq(persons, 1, Len(persons) - 1))
             p    == persons[Len(persons)]
         IN  ObjSet(rest, p.id, PersonRelations(cameras, p))

(***************************************************************************)
(* Recommendation (updateRecommendedCamera)                                *)
(***************************************************************************)
NoCamera == "none"

\* Object.entries(obj): [key, value] pairs in Object.keys order
ObjectEntries(obj) ==
    LET keys == ObjectKeys(obj)
    IN  [i \in DOMAIN keys |-> [k |-> keys[i], v |-> ObjGet(obj, keys[i])]]

\* Array.prototype.filter
RECURSIVE FilterVisible(_)
FilterVisible(entries) ==
    IF entries = <<>> THEN <<>>
    ELSE IF Head(entries).v.isVisible
         THEN <<Head(entries)>> \o FilterVisible(Tail(entries))
         ELSE FilterVisible(Tail(entries))

\* A comparator under which a later entry of equal score sorts first
SortsBeforeTiesReversed(a, b) == b.v.qualityScore - a.v.qualityScore <= 0

\* Comparator (a, b) => b[1].qualityScore - a[1].qualityScore: a sorts before b
\* when it is negative
SortsBefore(a, b) == b.v.qualityScore - a.v.qualityScore < 0

\* Insert e into a sorted sequence behind every element that does not sort
\* after it (Array.prototype.sort is stable)
RECURSIVE StableInsert(_, _)
StableInsert(sorted, e) ==
    IF sorted = <<>> THEN <<e>>
    ELSE IF SortsBefore(e, Head(sorted))
         THEN <<e>> \o sorted
         ELSE <<Head(sorted)>> \o StableInsert(Tail(sorted), e)

RECURSIVE StableSort(_)
StableSort(entries) ==
    IF entries = <<>> THEN <<>>
    ELSE StableInsert(StableSort(SubSeq(entries, 1, Len(entries) - 1)),
                      entries[Len(entries)])

\* The subject whose relations drive the recommendation
RecommendationSubject(relations) == ObjectKeys(relations)[1]

\* New value of recommendedCamera given the previous one
updateRecommendedCamera(relations, previous) ==
    IF relations = EmptyObj THEN previous
    ELSE LET personRelations == ObjGet(relations, RecommendationSubject(relations))
             visibleCameras  == StableSort(FilterVisible(ObjectEntries(personRelations)))
         IN  IF visibleCameras = <<>> THEN previous
             ELSE visibleCameras[1].k

(***************************************************************************)
(* State                                                                   *)
(***************************************************************************)
VARIABLES
    \* SceneViewerTest (React state)
    cameraFile,            \* frames of /data/truck/cameras.json
    sceneData,             \* NoScene or [loaded, cameras |-> object]
    personsData,           \* sequence of subjects
    cameraRelations,       \* object: subject id -> object: camera id -> Relation
    recommendedCamera,     \* NoCamera or a camera id
    useRealTracking,
    loading,
    pendingLoads,          \* useRealTracking as captured by each loadData in flight
    handlerHasScene,       \* whether the sceneData captured by the feed handlers
                           \* is a loaded scene
    \* LightweightSceneViewer / SceneContent (useMemo of sampler and outlines)
    memoPointsId,          \* identity of the points array the memos were computed for
    samplerRuns,           \* runs of the sampler in the renders of the latest event
    outlineRuns,           \* runs of the outline extractor in those renders
    staleFrame,            \* whether a render of the latest event read a relation
                           \* table not computed from the subjects and cameras
                           \* it rendered
    \* One run of the relations effect on a camera object and a subject list
    scoredCameras,
    scoredPersons,
    scoreOutcome,          \* [thrown, relations]
    \* CameraPreviewBar: one call of calculateCameraScore
    previewCamera,
    previewPerson,
    previewScore,          \* [computed, isNaN, distanceScore, total]
    \* TrackingService listeners
    eventListeners,        \* event name -> callbacks in registration order
    invoked,               \* callbacks called by the latest step, in order
    escaped,               \* an exception left _triggerEvent in the latest step
    reconnectAttempted,    \* the latest step went on to _attemptReconnect
    lastCall,              \* the call made by the latest step
    \* Trajectories: SceneViewerTest's history and App's structure tracking
    mounted,               \* the page component that is mounted, if any
    arrivalLimit,          \* positions a subject receives in the explored runs
    trajMode,              \* "sim" or "live" (useRealTracking)
    trajPersons,           \* ids of personsData, in order
    trajectoryHistory,     \* subject id -> entries {time, position}
    arrivedPositions,      \* subject id -> positions recorded since the last reset
    appSceneLoaded,        \* App's sceneData with its structures
    trackedStructureIds,
    structurePositions,
    structureTrails,
    trackingEnabled,
    arrivedTrail,          \* structure id -> positions recorded since the last reset
    appCall,               \* the handler called by the latest step
    \* SimplifiedPointCloud (props and the memoised result)
    cloud,                 \* [points, colors]: the flattened point cloud
    density,               \* [num, den]: the density prop as a fraction
    maxPoints,
    sampled,               \* [points, colors]: sampledPoints and sampledColors
    \* PointCloudOutlines (props and the locals of the memoised computation)
    outlinePoints,         \* the points prop
    edgeVoxels,
    sampledEdges,
    vertices,              \* sequence of segments <<from, to>>
    \* TrackingService and the viewer's connection state
    socket,                \* state of this.socket
    staleSockets,          \* states of sockets no longer referenced but not yet closed
    connected,
    retryCount,
    reconnectTimers,       \* delays of the pending reconnection timeouts
    emitted,               \* events triggered to the listeners by the latest step
    received,              \* the frame handled by the latest step, if any
    listening,             \* whether the viewer's handlers are registered
    wsConnected

viewerVars ==
    <<cameraFile, sceneData, personsData, cameraRelations, recommendedCamera,
      useRealTracking, loading, pendingLoads, handlerHasScene,
      memoPointsId, samplerRuns, outlineRuns, staleFrame,
      scoredCameras, scoredPersons, scoreOutcome>>

scoringVars == <<scoredCameras, scoredPersons, scoreOutcome>>

samplerVars == <<cloud, density, maxPoints, sampled>>

outlineVars == <<outlinePoints, edgeVoxels, sampledEdges, vertices>>

clientVars ==
    <<socket, staleSockets, connected, retryCount, reconnectTimers, emitted, received,
      listening, wsConnected>>

previewVars == <<previewCamera, previewPerson, previewScore>>

\* State of the components around the viewer
listenerVars == <<eventListeners, invoked, escaped, reconnectAttempted, lastCall>>

historyVars == <<trajMode, trajPersons, trajectoryHistory, arrivedPositions>>

appVars ==
    <<appSceneLoaded, trackedStructureIds, structurePositions, structureTrails,
      trackingEnabled, arrivedTrail, appCall>>

trackVars == <<mounted, arrivalLimit, historyVars, appVars>>

uiVars == <<previewVars, listenerVars, trackVars>>

vars == <<viewerVars, samplerVars, outlineVars, clientVars, uiVars>>

NoScore == [computed |-> FALSE, isNaN |-> FALSE, distanceScore |-> 0, total |-> 0]

\* calculateCameraScore has not been called
PreviewIdle ==
    /\ previewCamera = <<>>
    /\ previewPerson = <<>>
    /\ previewScore = NoScore

\* The events of the model: a data event and the event raised by onclose
ListenerEvents == {"persons", "disconnect"}

NoCall == [op |-> "none", event |-> "none", cb |-> "none"]

\* The constructor's eventListeners, no call made
ListenersIdle ==
    /\ eventListeners = [e \in ListenerEvents |-> <<>>]
    /\ invoked = <<>>
    /\ escaped = FALSE
    /\ reconnectAttempted = FALSE
    /\ lastCall = NoCall

\* Functions used as id-keyed objects
EmptyFn == [x \in {} |-> 0]

FnSet(f, k, v) == [x \in (DOMAIN f) \cup {k} |-> IF x = k THEN v ELSE f[x]]

FnDel(f, k) == [x \in (DOMAIN f) \ {k} |-> f[x]]

NoAppCall == [op |-> "none", id |-> 0]

\* SceneViewerTest's useState values for the trajectory history
HistoryIdle ==
    /\ trajMode = "sim"
    /\ trajPersons = <<>>
    /\ trajectoryHistory = EmptyFn
    /\ arrivedPositions = EmptyFn

\* App's useState values for structure tracking
AppUnmounted ==
    /\ appSceneLoaded = FALSE
    /\ trackedStructureIds = <<>>
    /\ structurePositions = EmptyFn
    /\ structureTrails = EmptyFn
    /\ trackingEnabled = FALSE
    /\ arrivedTrail = EmptyFn
    /\ appCall = NoAppCall

\* Neither SceneViewerTest nor App is mounted
TrackingIdle ==
    /\ mounted = "none"
    /\ arrivalLimit = 0
    /\ HistoryIdle
    /\ AppUnmounted

UiIdle == PreviewIdle /\ ListenersIdle /\ TrackingIdle

\* The relations effect has not run
ScoringIdle ==
    /\ scoredCameras = <<>>
    /\ scoredPersons = <<>>
    /\ scoreOutcome = [thrown |-> FALSE, relations |-> <<>>]

\* The viewer's own state before it is mounted
ViewerFresh ==
    /\ staleFrame = FALSE
    /\ ScoringIdle
    /\ PreviewIdle
    /\ ListenersIdle
    /\ cameraFile = <<>>
    /\ sceneData = [loaded |-> FALSE]
    /\ personsData = <<>>
    /\ cameraRelations = <<>>
    /\ recommendedCamera = "none"
    /\ useRealTracking = FALSE
    /\ loading = TRUE
    /\ pendingLoads = <<>>
    /\ handlerHasScene = FALSE
    /\ memoPointsId = 0
    /\ samplerRuns = 0
    /\ outlineRuns = 0

\* The viewer before it is mounted, no trajectory recorded
ViewerUnmounted == ViewerFresh /\ TrackingIdle

\* No point cloud component mounted
SamplerUnmounted ==
    /\ cloud = [points |-> <<>>, colors |-> <<>>]
    /\ density = [num |-> 1, den |-> 10]
    /\ maxPoints = 1
    /\ sampled = [points |-> <<>>, colors |-> <<>>]

OutlineUnmounted ==
    /\ outlinePoints = <<>>
    /\ edgeVoxels = <<>>
    /\ sampledEdges = <<>>
    /\ vertices = <<>>

\* The tracking client as constructed and never connected
ClientUnused ==
    /\ socket = "null"
    /\ staleSockets = <<>>
    /\ connected = FALSE
    /\ retryCount = 0
    /\ reconnectTimers = <<>>
    /\ emitted = <<>>
    /\ received = <<>>
    /\ listening = FALSE
    /\ wsConnected = FALSE

NoScene == [loaded |-> FALSE]

Scene(cameras) == [loaded |-> TRUE, cameras |-> cameras]

MaxPendingLoads == 1

(***************************************************************************)
(* Rendering of SceneContent: extractPointCloudData() builds new arrays    *)
(* with Array.prototype.flat() on every render; useMemo compares the       *)
(* dependency [points, ...] with the previous one by identity.             *)
(***************************************************************************)
NoArray == 0

\* The array the memos hold while the canvas is mounted.  Array identities are
\* kept up to renaming: after a render only the array the memos then hold is
\* still referenced, and it is named HeldArray again.
HeldArray == 1

\* Identity of a newly allocated array: distinct from the one still held
FreshArrayId(held) == held + 1

\* points = sceneData.point_cloud.points.flat()
extractPointCloudData(held) == FreshArrayId(held)

\* One render of the viewer, given the array the memos hold: the canvas is
\* shown only when not loading and a scene is present; useMemo recomputes when
\* the points dependency is not the held array
RenderViewer(held, nowLoading, scene) ==
    IF nowLoading \/ ~scene.loaded
    THEN [held |-> NoArray, ran |-> 0]
    ELSE LET points == extractPointCloudData(held)
         IN  [held |-> HeldArray, ran |-> IF points # held THEN 1 ELSE 0]

\* The renders of one event: the render after the handler's state updates and,
\* when the relations effect updates state, the render after it
RendersOf(nowLoading, scene, effectUpdates) ==
    LET first  == RenderViewer(memoPointsId, nowLoading, scene)
        second == RenderViewer(first.held, nowLoading, scene)
    IN  IF effectUpdates
        THEN /\ memoPointsId' = second.held
             /\ samplerRuns' = first.ran + second.ran
             /\ outlineRuns' = first.ran + second.ran
        ELSE /\ memoPointsId' = first.held
             /\ samplerRuns' = first.ran
             /\ outlineRuns' = first.ran

(***************************************************************************)
(* The effect with deps [sceneData, personsData]: it runs after the render *)
(* that follows a change of either, and returns early without a scene or   *)
(* without subjects                                                        *)
(***************************************************************************)
EffectUpdates(scene, persons) == scene.loaded /\ Len(persons) # 0

\* The camera objects and subject lists the viewer can hold
CameraObjects ==
    {CamerasFromFrames(f) : f \in CameraFiles}
        \cup {CamerasFromFeed(d.ids, d.poses) : d \in CamerasPayloads}

SubjectLists == PersonsPayloads \cup {DummyPersonData}

\* calculateCameraPersonRelations over those
RelationsOf ==
    [cameras \in CameraObjects, persons \in SubjectLists |->
        calculateCameraPersonRelations(cameras, persons)]

RelationsEffect(scene, persons) ==
    IF ~EffectUpdates(scene, persons)
    THEN UNCHANGED <<cameraRelations, recommendedCamera>>
    ELSE LET relations == RelationsOf[scene.cameras, persons]
         IN  /\ cameraRelations' = relations
             /\ recommendedCamera' =
                    updateRecommendedCamera(relations, recommendedCamera)

\* The render that follows a handler's state updates runs before the effect:
\* it reads the new scene and subjects with the relation table as it was
StaleFirstFrame(nowLoading, scene, persons) ==
    /\ ~nowLoading
    /\ EffectUpdates(scene, persons)
    /\ cameraRelations # RelationsOf[scene.cameras, persons]

(***************************************************************************)
(* SceneViewerTest                                                         *)
(***************************************************************************)
InitViewer ==
    /\ staleFrame = FALSE
    /\ ScoringIdle
    /\ UiIdle
    /\ cameraFile \in CameraFiles
    /\ sceneData = NoScene
    /\ personsData = <<>>
    /\ cameraRelations = EmptyObj
    /\ recommendedCamera = NoCamera
    /\ useRealTracking = FALSE
    /\ loading = TRUE
    /\ pendingLoads = <<FALSE>>
    /\ handlerHasScene = FALSE
    /\ memoPointsId = NoArray
    /\ samplerRuns = 0
    /\ outlineRuns = 0
    /\ SamplerUnmounted
    /\ OutlineUnmounted
    /\ ClientUnused

\* loadData resolves: setSceneData(finalSceneData); loadPersonsData() unless
\* live tracking was on when the load started; setLoading(false)
LoadDataDone ==
    /\ \E i \in DOMAIN pendingLoads :
        /\ pendingLoads' = SubSeq(pendingLoads, 1, i - 1)
                               \o SubSeq(pendingLoads, i + 1, Len(pendingLoads))
        /\ personsData' = IF pendingLoads[i] THEN personsData ELSE DummyPersonData
    /\ sceneData' = Scene(CamerasFromFrames(cameraFile))
    /\ loading' = FALSE
    /\ RelationsEffect(sceneData', personsData')
    /\ RendersOf(FALSE, sceneData', EffectUpdates(sceneData', personsData'))
    /\ staleFrame' = StaleFirstFrame(FALSE, sceneData', personsData')
    /\ UNCHANGED <<cameraFile, useRealTracking, handlerHasScene>>
    /\ UNCHANGED <<scoringVars, samplerVars, outlineVars, clientVars, uiVars>>

\* toggleTracking, and the effect with deps [useRealTracking] that follows:
\* cleanup of the old handlers, loadData() again (setLoading(true)), and in live
\* mode registration of the feed handlers, which capture sceneData
ToggleTracking ==
    /\ Len(pendingLoads) < MaxPendingLoads
    /\ useRealTracking' = ~useRealTracking
    /\ pendingLoads' = Append(pendingLoads, useRealTracking')
    /\ loading' = TRUE
    /\ handlerHasScene' = (useRealTracking' /\ sceneData.loaded)
    /\ RendersOf(TRUE, sceneData, FALSE)
    /\ staleFrame' = FALSE
    /\ UNCHANGED <<cameraFile, sceneData, personsData, cameraRelations,
                   recommendedCamera>>
    /\ UNCHANGED <<scoringVars, samplerVars, outlineVars, clientVars, uiVars>>

\* handlePersons: a 'persons' event of the tracking client
HandlePersons ==
    /\ useRealTracking
    /\ \E persons \in PersonsPayloads : personsData' = persons
    /\ RelationsEffect(sceneData, personsData')
    /\ RendersOf(loading, sceneData, EffectUpdates(sceneData, personsData'))
    /\ staleFrame' = StaleFirstFrame(loading, sceneData, personsData')
    /\ UNCHANGED <<cameraFile, sceneData, useRealTracking, loading,
                   pendingLoads, handlerHasScene>>
    /\ UNCHANGED <<scoringVars, samplerVars, outlineVars, clientVars, uiVars>>

\* handleCameras: a 'cameras' event of the tracking client with a non-empty
\* list.  The captured sceneData is spread and its cameras replaced; the other
\* fields of a scene are the same in every scene of a run.  The handler also
\* selects the active camera, which no relation or recommendation reads; the
\* render that selection alone may cause is left to the environment.
HandleCameras ==
    /\ useRealTracking
    /\ \E data \in CamerasPayloads :
        /\ Len(data.ids) > 0
        /\ sceneData' = IF handlerHasScene
                        THEN Scene(CamerasFromFeed(data.ids, data.poses))
                        ELSE sceneData
    /\ IF handlerHasScene
       THEN /\ RelationsEffect(sceneData', personsData)
            /\ RendersOf(loading, sceneData', EffectUpdates(sceneData', personsData))
            /\ staleFrame' = StaleFirstFrame(loading, sceneData', personsData)
       ELSE /\ UNCHANGED <<cameraRelations, recommendedCamera>>
            /\ \E selectionChanged \in BOOLEAN :
                IF selectionChanged
                THEN /\ RendersOf(loading, sceneData', FALSE)
                     /\ staleFrame' = StaleFirstFrame(loading, sceneData', personsData)
                ELSE /\ UNCHANGED <<memoPointsId, samplerRuns, outlineRuns>>
                     /\ staleFrame' = FALSE
    /\ UNCHANGED <<cameraFile, personsData, useRealTracking, loading,
                   pendingLoads, handlerHasScene>>
    /\ UNCHANGED <<scoringVars, samplerVars, outlineVars, clientVars, uiVars>>

NextViewer ==
    \/ LoadDataDone
    \/ ToggleTracking
    \/ HandlePersons
    \/ HandleCameras

SpecViewer == InitViewer /\ [][NextViewer]_vars

(***************************************************************************)
(* Claims about the relation table and the recommendation                  *)
(***************************************************************************)
CameraIds == IF sceneData.loaded THEN KeySet(sceneData.cameras) ELSE {}

SubjectIds == {personsData[i].id : i \in DOMAIN personsData}

\* The first subject of the latest tracking payload
PrimarySubject == personsData[1]

\* The current relation of camera cid to the first subject
PrimaryRelation(cid) == Relation(ObjGet(sceneData.cameras, cid), PrimarySubject)

CamerasSeeingPrimary ==
    IF sceneData.loaded /\ Len(personsData) > 0
    THEN {cid \in CameraIds : PrimaryRelation(cid).isVisible}
    ELSE {}

RecommendationValid ==
    recommendedCamera # NoCamera => recommendedCamera \in CamerasSeeingPrimary

\* C1: after every tracking update and every camera-list update the
\* recommended camera is none or a camera of the current camera set that
\* currently sees the first subject (so it is none when no camera sees it).
C1_RecommendationVisibleOrNone ==
    [][(HandlePersons \/ HandleCameras) => RecommendationValid']_vars

PoseFront == [position |-> Vec(0, 0, 5), direction |-> Vec(0, 0, -1)]

PoseSide == [position |-> Vec(5, 0, 0), direction |-> Vec(-1, 0, 0)]

\* Camera ids of the current scene at a pose
CamerasAt(pose) == {cid \in CameraIds : ObjGet(sceneData.cameras, cid) = pose}

\* Cameras at (0,0,5)->(0,0,-1) and (5,0,0)->(-1,0,0), one subject at (0,0,0)
\* facing (0,0,1)
ScenarioState ==
    /\ sceneData.loaded
    /\ Cardinality(CameraIds) = 2
    /\ CamerasAt(PoseFront) # {}
    /\ CamerasAt(PoseSide) # {}
    /\ Len(personsData) = 1
    /\ personsData[1].position = Vec(0, 0, 0)
    /\ personsData[1].direction = Vec(0, 0, 1)

\* C3: in that scenario both cameras see the subject, the (0,0,5) camera has
\* the strictly higher angle score, and the (0,0,5) camera is recommended.
C3_FrontCameraRecommended ==
    ScenarioState =>
        LET table == ObjGet(cameraRelations, personsData[1].id)
            front == CHOOSE cid \in CamerasAt(PoseFront) : TRUE
            side  == CHOOSE cid \in CamerasAt(PoseSide) : TRUE
        IN  /\ ObjGet(table, front).isVisible
            /\ ObjGet(table, side).isVisible
            /\ ObjGet(table, front).angleScore > ObjGet(table, side).angleScore
            /\ recommendedCamera = front

\* C8: whenever some camera sees the first subject of the payload, the
\* recommendation is a camera seeing that subject whose quality score is at
\* least that of every other camera seeing it.
C8_RecommendationIsBestForFirstSubject ==
    CamerasSeeingPrimary # {} =>
        /\ recommendedCamera \in CamerasSeeingPrimary
        /\ \A cid \in CamerasSeeingPrimary :
               PrimaryRelation(recommendedCamera).qualityScore
                   >= PrimaryRelation(cid).qualityScore

\* The table is current: the relations effect has run on the present scene
\* and subjects
TableCurrent == sceneData.loaded /\ Len(personsData) > 0

\* The relations the recommendation is computed from
DrivingRelations == ObjGet(cameraRelations, RecommendationSubject(cameraRelations))

\* Visible cameras sharing the highest quality score in those relations
TopCameras ==
    LET visible == {cid \in CameraIds : ObjGet(DrivingRelations, cid).isVisible}
    IN  {cid \in visible : \A o \in visible :
            ObjGet(DrivingRelations, cid).qualityScore
                >= ObjGet(DrivingRelations, o).qualityScore}

\* Position of a camera id in the camera iteration order
IterationIndex(cid) ==
    CHOOSE i \in DOMAIN ObjectKeys(sceneData.cameras) :
        ObjectKeys(sceneData.cameras)[i] = cid

\* Ascending order of the camera ids of the model
IdRank ==
    ("0" :> 0) @@ ("1" :> 1) @@ ("2" :> 2) @@ ("3" :> 3)
        @@ ("cam_a" :> 10) @@ ("cam_b" :> 11)

\* C9 as stated: among several visible cameras sharing the highest score the
\* recommendation is the one with the lowest camera id.
C9_TieGoesToLowestId ==
    (TableCurrent /\ Cardinality(TopCameras) >= 2) =>
        /\ recommendedCamera \in TopCameras
        /\ \A cid \in TopCameras : IdRank[recommendedCamera] <= IdRank[cid]

\* C9 (amended): among several visible cameras sharing the highest score the
\* recommendation is the first of them in the camera iteration order
\* (Object.keys order); it is the lowest id when the tied ids are integer-like.
C9_TieGoesToFirstInIterationOrder ==
    (TableCurrent /\ Cardinality(TopCameras) >= 2) =>
        /\ recommendedCamera \in TopCameras
        /\ \A cid \in TopCameras :
               IterationIndex(recommendedCamera) <= IterationIndex(cid)
        /\ (\A cid \in TopCameras : IsIndexKey(cid)) =>
               \A cid \in TopCameras : IdRank[recommendedCamera] <= IdRank[cid]

\* A tie between cameras with non-numeric ids received in descending id order
C9_Witness ==
    /\ TableCurrent
    /\ TopCameras = {"cam_a", "cam_b"}
    /\ ObjectKeys(sceneData.cameras) = <<"cam_b", "cam_a">>
    /\ recommendedCamera = "cam_b"

TableMatchesUpdate ==
    /\ \A pid \in SubjectIds : \A cid \in CameraIds :
           /\ ObjHas(cameraRelations, pid)
           /\ ObjHas(ObjGet(cameraRelations, pid), cid)
    /\ KeySet(cameraRelations) \subseteq SubjectIds
    /\ \A pid \in KeySet(cameraRelations) :
           KeySet(ObjGet(cameraRelations, pid)) \subseteq CameraIds

\* C10: after every received tracking update the relation table holds a
\* relation for every (subject, camera) pair of the update's subjects and
\* the current cameras, and no entry for an absent subject or camera.
C10_TableRebuiltPerUpdate ==
    [][HandlePersons => TableMatchesUpdate']_vars

\* C16: every render of a tracking tick reads a relation table computed from
\* the subjects and cameras of that same render, never new subjects with the
\* table of the previous tick.
C16_TickFramesConsistent ==
    [][HandlePersons => ~staleFrame']_vars

\* C5: a tracking tick does not re-run the point-cloud sampler or the
\* outline extractor.
C5_TickDoesNotResample ==
    [][HandlePersons => (samplerRuns' = 0 /\ outlineRuns' = 0)]_vars

(***************************************************************************)
(* SimplifiedPointCloud: the sampler.  The flat arrays are kept as         *)
(* sequences of triples (both come from Array.prototype.flat() of triples, *)
(* so the idx + 2 < length tests always pass).  Positions are in units of  *)
(* 0.005 and colours in units of 0.05.                                     *)
(***************************************************************************)
MaxCloudPoints == 3

MaxMaxPoints == 3

\* importanceThreshold = 0.01, in position units
ImportanceThreshold == 2

\* the colour difference threshold 0.1, in colour units
ColorThreshold == 2

DistSq(p, q) == Dot(Sub(p, q), Sub(p, q))

\* Points with the colour each has in a coloured cloud
CloudPointPool ==
    {[p |-> Vec(0, 0, 0), c |-> Vec(0, 0, 0)],
     [p |-> Vec(1, 0, 0), c |-> Vec(3, 0, 0)],
     [p |-> Vec(3, 0, 0), c |-> Vec(0, 0, 0)]}

\* Clouds with a colour per point, and the same clouds without colours
Clouds ==
    LET lists == SeqsUpTo(CloudPointPool, MaxCloudPoints)
    IN  {[points |-> [i \in DOMAIN l |-> l[i].p],
          colors |-> [i \in DOMAIN l |-> l[i].c]] : l \in lists}
        \cup {[points |-> [i \in DOMAIN l |-> l[i].p], colors |-> <<>>] : l \in lists}

\* density values: 1, 0.5 and 2
Densities ==
    {[num |-> 1, den |-> 1], [num |-> 1, den |-> 2], [num |-> 2, den |-> 1]}

\* maxPoints is a positive integer in every caller
MaxPointsValues == 1 .. MaxMaxPoints

\* A colour test that never finds colours
HasNoColors(c) == Len(c.points) < 0

\* colors && colors.length >= points.length
HasAllColors(c) == Len(c.colors) >= Len(c.points) /\ Len(c.points) > 0

\* interval: Math.max(1, Math.floor(1 / density)), raised to
\* Math.ceil(totalPoints / maxPoints) when totalPoints / interval > maxPoints
SamplingInterval(totalPoints, d, m) ==
    LET base == Max(1, d.den \div d.num)
    IN  IF totalPoints > m * base THEN CeilDiv(totalPoints, m) ELSE base

\* An importance test that looks at positions only
IsImportantByPosition(c, last, i) ==
    DistSq(c.points[i + 1], c.points[last + 1])
        > ImportanceThreshold * ImportanceThreshold

\* isImportant for point i (0-based) given the last kept point
IsImportant(c, last, i) ==
    \/ DistSq(c.points[i + 1], c.points[last + 1])
           > ImportanceThreshold * ImportanceThreshold
    \/ /\ HasAllColors(c)
       /\ DistSq(c.colors[i + 1], c.colors[last + 1])
              > ColorThreshold * ColorThreshold

\* The first loop: the indices pushed to sampledPointsArray
RECURSIVE KeepLoop(_, _, _, _)
KeepLoop(c, interval, i, kept) ==
    IF i >= Len(c.points) THEN kept
    ELSE LET important == Len(kept) > 0 /\ IsImportant(c, kept[Len(kept)], i)
         IN  IF i % interval = 0 \/ important
             THEN KeepLoop(c, interval, i + 1, Append(kept, i))
             ELSE KeepLoop(c, interval, i + 1, kept)

\* A resampling stride that rounds down
ResampleIntervalFloor(keptCount, m) == Max(1, keptCount \div m)

\* resampleInterval = Math.ceil((sampledPointsArray.length / 3) / maxPoints)
ResampleInterval(keptCount, m) == CeilDiv(keptCount, m)

\* A second loop that starts at the step instead of at 0
ResampleAfterFirst(kept, step) ==
    [k \in 1 .. ((Len(kept) - 1) \div step) |-> kept[k * step + 1]]

\* A second loop that keeps the first entries instead of every step-th one
ResampleByTruncation(kept, step) ==
    SubSeq(kept, 1, CeilDiv(Len(kept), step))

\* The second loop: every resampleInterval-th kept index
Resample(kept, step) ==
    [k \in 1 .. CeilDiv(Len(kept), step) |-> kept[(k - 1) * step + 1]]

FirstPass(c, d, m) ==
    KeepLoop(c, SamplingInterval(Len(c.points), d, m), 0, <<>>)

\* The memoised computation: sampledPoints and sampledColors
SimplifiedPointCloud(c, d, m) ==
    LET kept  == FirstPass(c, d, m)
        final == IF Len(kept) > m
                 THEN Resample(kept, ResampleInterval(Len(kept), m))
                 ELSE kept
    IN  [points |-> [k \in DOMAIN final |-> c.points[final[k] + 1]],
         colors |-> IF HasAllColors(c)
                    THEN [k \in DOMAIN final |-> c.colors[final[k] + 1]]
                    ELSE <<>>]

SampledOf ==
    [c \in Clouds, d \in Densities, m \in MaxPointsValues |->
        SimplifiedPointCloud(c, d, m)]

\* A computation that appends to the arrays of the previous run
RecomputeAppending(c, d, m) ==
    [points |-> sampled.points \o SampledOf[c, d, m].points,
     colors |-> sampled.colors \o SampledOf[c, d, m].colors]

\* The useMemo callback run on (points, colors, density, maxPoints): its
\* arrays and lastPoint/lastColor are locals of the run
RecomputeMemo(c, d, m) == SampledOf[c, d, m]

InitSampler ==
    /\ ViewerUnmounted
    /\ OutlineUnmounted
    /\ ClientUnused
    /\ cloud = [points |-> <<>>, colors |-> <<>>]
    /\ density \in Densities
    /\ maxPoints \in MaxPointsValues
    /\ sampled = [points |-> <<>>, colors |-> <<>>]

\* A render with a new point cloud
LoadCloud ==
    /\ \E c \in Clouds : cloud' = c
    /\ sampled' = RecomputeMemo(cloud', density, maxPoints)
    /\ UNCHANGED <<density, maxPoints, viewerVars, outlineVars, clientVars, uiVars>>

\* handleDensityChange and the render that follows
ChangeDensity ==
    /\ \E d \in Densities : density' = d
    /\ sampled' = RecomputeMemo(cloud, density', maxPoints)
    /\ UNCHANGED <<cloud, maxPoints, viewerVars, outlineVars, clientVars, uiVars>>

\* handleMaxPointsChange and the render that follows
ChangeMaxPoints ==
    /\ \E m \in MaxPointsValues : maxPoints' = m
    /\ sampled' = RecomputeMemo(cloud, density, maxPoints')
    /\ UNCHANGED <<cloud, density, viewerVars, outlineVars, clientVars, uiVars>>

\* A render in which the memo is computed again on the same props (the points
\* array is a new array with the same contents)
RerunSampler ==
    /\ Len(cloud.points) > 0
    /\ sampled' = RecomputeMemo(cloud, density, maxPoints)
    /\ UNCHANGED <<cloud, density, maxPoints, viewerVars, outlineVars, clientVars, uiVars>>

NextSampler ==
    \/ LoadCloud
    \/ ChangeDensity
    \/ ChangeMaxPoints
    \/ RerunSampler

SpecSampler == InitSampler /\ [][NextSampler]_vars

\* C2: for every cloud, density and maxPoints (a positive integer, as in every
\* caller) the sampler never returns more than maxPoints points.
C2_SampleWithinMaxPoints ==
    /\ Len(sampled.points) <= maxPoints
    /\ Len(sampled.colors) <= maxPoints

\* The first pass kept more than maxPoints points and the second pass cut them
C2_Witness ==
    /\ Len(FirstPass(cloud, density, maxPoints)) > maxPoints
    /\ sampled = SimplifiedPointCloud(cloud, density, maxPoints)
    /\ Len(sampled.points) = maxPoints
    /\ maxPoints > 1

\* C11: a cloud with at least one point gives an output with at least one
\* point, for every density and maxPoints.
C11_NonEmptyCloudGivesNonEmptySample ==
    Len(cloud.points) > 0 => Len(sampled.points) > 0

\* Several points kept by the first pass are cut down to a single one
C11_Witness ==
    /\ Len(FirstPass(cloud, density, maxPoints)) > 1
    /\ maxPoints = 1
    /\ Len(sampled.points) = 1

StatedStride ==
    LET n    == Len(cloud.points)
        base == IF density.den \div density.num >= 1
                THEN density.den \div density.num ELSE 1
    IN  IF n > maxPoints * base THEN (n + maxPoints - 1) \div maxPoints ELSE base

\* The most recently kept index before i among the indices kept
LastKeptBefore(kept, i) ==
    CHOOSE j \in Range(kept) : j < i /\ \A o \in Range(kept) : o < i => o <= j

\* Point i differs enough in position from the most recently kept point
FarFromLastKept(kept, i) ==
    /\ \E j \in Range(kept) : j < i
    /\ DistSq(cloud.points[i + 1], cloud.points[LastKeptBefore(kept, i) + 1])
           > ImportanceThreshold * ImportanceThreshold

\* Point i differs enough in colour from the most recently kept point
ColorFarFromLastKept(kept, i) ==
    /\ Len(cloud.colors) > 0
    /\ \E j \in Range(kept) : j < i
    /\ DistSq(cloud.colors[i + 1], cloud.colors[LastKeptBefore(kept, i) + 1])
           > ColorThreshold * ColorThreshold

\* C17: the first pass keeps, in original order, exactly the points i with
\* i % stride = 0, or farther than 0.01 from the most recently kept point, or
\* (with colours) with a colour farther than 0.1 from that point's colour.
C17_FirstPassKeepsStrideAndImportant ==
    LET kept == FirstPass(cloud, density, maxPoints)
    IN  /\ \A k \in 1 .. (Len(kept) - 1) : kept[k] < kept[k + 1]
        /\ \A i \in 0 .. (Len(cloud.points) - 1) :
               (i \in Range(kept)) <=>
                   \/ i % StatedStride = 0
                   \/ FarFromLastKept(kept, i)
                   \/ ColorFarFromLastKept(kept, i)
        /\ Range(kept) \subseteq 0 .. (Len(cloud.points) - 1)
        /\ Len(kept) <= maxPoints =>
               sampled.points = [k \in DOMAIN kept |-> cloud.points[kept[k] + 1]]

\* A first pass that drops a point and keeps another one for its colour alone
C17_Witness ==
    LET kept == FirstPass(cloud, density, maxPoints)
    IN  /\ \E i \in 0 .. (Len(cloud.points) - 1) : i \notin Range(kept)
        /\ \E i \in Range(kept) :
               /\ i % StatedStride # 0
               /\ ~FarFromLastKept(kept, i)
               /\ ColorFarFromLastKept(kept, i)

\* C18: when the first pass keeps more than maxPoints points, the output is
\* the first-pass points at positions 0, r, 2r, ... with
\* r = ceil(kept/maxPoints): it reaches the last r positions of the reduced
\* set and, for maxPoints above 1, is not its prefix.
C18_SecondPassTakesEveryRth ==
    LET kept  == FirstPass(cloud, density, maxPoints)
        r     == (Len(kept) + maxPoints - 1) \div maxPoints
        count == (Len(kept) + r - 1) \div r
    IN  Len(kept) > maxPoints =>
            /\ sampled.points =
                   [k \in 1 .. count |-> cloud.points[kept[(k - 1) * r + 1] + 1]]
            /\ (count - 1) * r < Len(kept)
            /\ (count - 1) * r >= Len(kept) - r
            /\ r >= 2
            /\ maxPoints > 1 => count > 1

\* A second pass that takes positions 0 and 2 of three kept points
C18_Witness ==
    LET kept == FirstPass(cloud, density, maxPoints)
    IN  /\ Len(kept) = 3
        /\ maxPoints = 2
        /\ sampled.points = <<cloud.points[kept[1] + 1], cloud.points[kept[3] + 1]>>
        /\ cloud.points[kept[2] + 1] # cloud.points[kept[3] + 1]

\* The input indices of the output points
FinalIndices ==
    LET kept == FirstPass(cloud, density, maxPoints)
    IN  IF Len(kept) > maxPoints
        THEN Resample(kept, ResampleInterval(Len(kept), maxPoints))
        ELSE kept

\* C19: with input colours the output colours have the length of the output
\* points and entry k is the colour of the input point that became output
\* point k; without input colours the output has no colour sequence.
C19_ColorsFollowPoints ==
    /\ Len(cloud.colors) > 0 =>
           /\ Len(sampled.colors) = Len(sampled.points)
           /\ Len(FinalIndices) = Len(sampled.points)
           /\ \A k \in DOMAIN sampled.points :
                  /\ sampled.points[k] = cloud.points[FinalIndices[k] + 1]
                  /\ sampled.colors[k] = cloud.colors[FinalIndices[k] + 1]
    /\ Len(cloud.colors) = 0 => sampled.colors = <<>>

\* A coloured cloud cut by the second pass to several points of different
\* colours
C19_Witness ==
    /\ Len(cloud.colors) > 0
    /\ Len(FirstPass(cloud, density, maxPoints)) > maxPoints
    /\ Len(sampled.colors) > 1
    /\ sampled.colors[1] # sampled.colors[2]

(***************************************************************************)
(* PointCloudOutlines.  Coordinates are in units of 0.00025, so that       *)
(* voxelSize = 0.1 is 400 units and the third decimal is 4 units.          *)
(***************************************************************************)
MaxOutlinePoints == 3

\* voxelSize = 0.1, in coordinate units
VoxelSize == 400

\* x coordinates of the points of the input clouds (y = z = 0): points that
\* share a voxel (0, 399), points just below and just above the stitch distance
\* of 800 from 0 (799, 801), which also agree to three decimals, and a point
\* whose third decimal is "-0.000" (-1)
OutlineCoordinates == {0, 399, 799, 801, -1}

\* A cloud filling a voxel and its six neighbours
CrossCloud ==
    <<Vec(10, 10, 10), Vec(410, 10, 10), Vec(-390, 10, 10), Vec(10, 410, 10),
      Vec(10, -390, 10), Vec(10, 10, 410), Vec(10, 10, -390)>>

OutlineClouds ==
    SeqsUpTo({Vec(x, 0, 0) : x \in OutlineCoordinates}, MaxOutlinePoints)
        \cup {CrossCloud}

\* Math.floor(coordinate / voxelSize) per axis
VoxelOf(p) == <<p[1] \div VoxelSize, p[2] \div VoxelSize, p[3] \div VoxelSize>>

GridHas(grid, key) == \E i \in DOMAIN grid : grid[i].k = key

\* The first loop: voxelGrid as its entries in insertion order; a voxel keeps
\* the first point put into it and counts the points
RECURSIVE Voxelize(_, _, _)
Voxelize(points, i, grid) ==
    IF i > Len(points) THEN grid
    ELSE LET key == VoxelOf(points[i])
         IN  IF GridHas(grid, key)
             THEN Voxelize(points, i + 1,
                      [n \in DOMAIN grid |->
                          IF grid[n].k = key
                          THEN [grid[n] EXCEPT !.v.count = @ + 1]
                          ELSE grid[n]])
             ELSE Voxelize(points, i + 1,
                      Append(grid, [k |-> key, v |-> [count |-> 1, p |-> points[i]]]))

Directions ==
    {Vec(1, 0, 0), Vec(-1, 0, 0), Vec(0, 1, 0), Vec(0, -1, 0), Vec(0, 0, 1),
     Vec(0, 0, -1)}

\* A test that needs every neighbour to be empty
IsIsolatedVoxel(grid, key) ==
    \A d \in Directions : ~GridHas(grid, <<key[1] + d[1], key[2] + d[2], key[3] + d[3]>>)

\* emptyNeighbors > 0
IsEdgeVoxel(grid, key) ==
    \E d \in Directions : ~GridHas(grid, <<key[1] + d[1], key[2] + d[2], key[3] + d[3]>>)

\* Object.keys(voxelGrid).forEach: keys of the form "x,y,z" keep insertion order
RECURSIVE EdgeVoxelsOf(_, _)
EdgeVoxelsOf(grid, i) ==
    IF i > Len(grid) THEN <<>>
    ELSE IF IsEdgeVoxel(grid, grid[i].k)
         THEN <<grid[i].v>> \o EdgeVoxelsOf(grid, i + 1)
         ELSE EdgeVoxelsOf(grid, i + 1)

\* the limit of Math.min(edgeVoxels.length, 5000)
EdgeSampleLimit == 5000

\* samplingStep = Math.max(1, Math.floor(length / Math.min(length, 5000)))
SamplingStep(length) == Max(1, length \div Min(length, EdgeSampleLimit))

\* The indices i = 0, samplingStep, ... below length
RetainedIndices(length) ==
    IF length = 0 THEN <<>>
    ELSE [k \in 1 .. CeilDiv(length, SamplingStep(length)) |->
             (k - 1) * SamplingStep(length)]

SampleEdges(edges) ==
    LET retained == RetainedIndices(Len(edges))
    IN  [k \in DOMAIN retained |-> edges[retained[k] + 1]]

\* Number.prototype.toFixed(3) of one coordinate: the sign and the magnitude
\* rounded to the third decimal
ToFixed3(x) == [negative |-> x < 0, magnitude |-> 4 * ((Abs(x) + 2) \div 4)]

\* `${x.toFixed(3)},${y.toFixed(3)},${z.toFixed(3)}`
ProcessedKey(voxel) ==
    <<ToFixed3(voxel.p[1]), ToFixed3(voxel.p[2]), ToFixed3(voxel.p[3])>>

\* A distance test that accepts every pair
WithinAnyDistance(dist) == dist >= 0

\* dist < voxelSize * voxelSize * 4
WithinStitchDistance(dist) == dist < VoxelSize * VoxelSize * 4

\* An inner loop that does not skip processed points
NearestIdxAmongAll(edges, i, processed) ==
    LET candidates ==
            {j \in DOMAIN edges :
                /\ j # i
                /\ WithinStitchDistance(DistSq(edges[i].p, edges[j].p))}
    IN  IF candidates = {} THEN 0
        ELSE CHOOSE j \in candidates : \A o \in candidates :
                 \/ DistSq(edges[i].p, edges[j].p) < DistSq(edges[i].p, edges[o].p)
                 \/ /\ DistSq(edges[i].p, edges[j].p) = DistSq(edges[i].p, edges[o].p)
                    /\ j <= o

\* The inner loop: the nearest unprocessed sampled edge within the threshold,
\* the first one among equally near ones; 0 when there is none
NearestIdx(edges, i, processed) ==
    LET candidates ==
            {j \in DOMAIN edges :
                /\ j # i
                /\ ProcessedKey(edges[j]) \notin processed
                /\ WithinStitchDistance(DistSq(edges[i].p, edges[j].p))}
    IN  IF candidates = {} THEN 0
        ELSE CHOOSE j \in candidates : \A o \in candidates :
                 \/ DistSq(edges[i].p, edges[j].p) < DistSq(edges[i].p, edges[o].p)
                 \/ /\ DistSq(edges[i].p, edges[j].p) = DistSq(edges[i].p, edges[o].p)
                    /\ j <= o

\* The outer loop over sampledEdges
RECURSIVE Stitch(_, _, _, _)
Stitch(edges, i, processed, segments) ==
    IF i > Len(edges) THEN segments
    ELSE IF ProcessedKey(edges[i]) \in processed
         THEN Stitch(edges, i + 1, processed, segments)
         ELSE LET marked  == processed \cup {ProcessedKey(edges[i])}
                  nearest == NearestIdx(edges, i, marked)
              IN  IF nearest = 0
                  THEN Stitch(edges, i + 1, marked, segments)
                  ELSE Stitch(edges, i + 1,
                           marked \cup {ProcessedKey(edges[nearest])},
                           Append(segments, <<edges[i].p, edges[nearest].p>>))

\* The memoised computation, with its locals
PointCloudOutlines(points) ==
    LET grid  == Voxelize(points, 1, <<>>)
        edges == EdgeVoxelsOf(grid, 1)
    IN  [edgeVoxels |-> edges,
         sampledEdges |-> SampleEdges(edges),
         vertices |-> Stitch(SampleEdges(edges), 1, {}, <<>>)]

OutlinesOf == [points \in OutlineClouds |-> PointCloudOutlines(points)]

InitOutline ==
    /\ ViewerUnmounted
    /\ SamplerUnmounted
    /\ ClientUnused
    /\ OutlineUnmounted

\* A render with a new points array
ExtractOutline ==
    /\ \E points \in OutlineClouds :
        /\ outlinePoints' = points
        /\ edgeVoxels' = OutlinesOf[points].edgeVoxels
        /\ sampledEdges' = OutlinesOf[points].sampledEdges
        /\ vertices' = OutlinesOf[points].vertices
    /\ UNCHANGED <<viewerVars, samplerVars, clientVars, uiVars>>

NextOutline == ExtractOutline

SpecOutline == InitOutline /\ [][NextOutline]_vars

\* C7: every segment of the outline joins two retained edge points whose
\* squared distance is below 4 x voxelSize^2.
C7_SegmentsWithinStitchDistance ==
    \A n \in DOMAIN vertices :
        /\ \E e \in DOMAIN sampledEdges : sampledEdges[e].p = vertices[n][1]
        /\ \E e \in DOMAIN sampledEdges : sampledEdges[e].p = vertices[n][2]
        /\ DistSq(vertices[n][1], vertices[n][2]) < 4 * VoxelSize * VoxelSize

\* A segment was emitted although some retained edge point lies too far from
\* every other one to be joined
C7_Witness ==
    /\ Len(vertices) > 0
    /\ \E e \in DOMAIN sampledEdges : \A o \in DOMAIN sampledEdges :
           o # e => DistSq(sampledEdges[e].p, sampledEdges[o].p)
                        >= 4 * VoxelSize * VoxelSize

\* The segment ends that are the point of a sampled edge voxel
EndpointUses(e) ==
    {u \in (DOMAIN vertices) \X {1, 2} : vertices[u[1]][u[2]] = sampledEdges[e].p}

\* C22: each sampled edge voxel is an endpoint of at most one segment.
C22_EndpointUsedOnce ==
    \A e \in DOMAIN sampledEdges : Cardinality(EndpointUses(e)) <= 1

\* A sampled edge voxel stays unconnected although another one lies within
\* the stitch distance, because that one is already the end of a segment
C22_Witness ==
    \E e \in DOMAIN sampledEdges : \E o \in DOMAIN sampledEdges :
        /\ e # o
        /\ DistSq(sampledEdges[e].p, sampledEdges[o].p) < 4 * VoxelSize * VoxelSize
        /\ ProcessedKey(sampledEdges[e]) # ProcessedKey(sampledEdges[o])
        /\ EndpointUses(e) = {}
        /\ Cardinality(EndpointUses(o)) = 1

\* The cells that hold an input point
OccupiedCells == {VoxelOf(outlinePoints[i]) : i \in DOMAIN outlinePoints}

NeighbourCells(cell) ==
    {<<cell[1] + 1, cell[2], cell[3]>>, <<cell[1] - 1, cell[2], cell[3]>>,
     <<cell[1], cell[2] + 1, cell[3]>>, <<cell[1], cell[2] - 1, cell[3]>>,
     <<cell[1], cell[2], cell[3] + 1>>, <<cell[1], cell[2], cell[3] - 1>>}

EdgeCells == {VoxelOf(edgeVoxels[i].p) : i \in DOMAIN edgeVoxels}

\* C23: a voxel is an edge voxel exactly when at least one of its six
\* axis-aligned neighbour cells holds no input point.
C23_EdgeIffEmptyNeighbour ==
    /\ EdgeCells \subseteq OccupiedCells
    /\ \A cell \in OccupiedCells :
        cell \in EdgeCells <=> ~(NeighbourCells(cell) \subseteq OccupiedCells)
    /\ Len(edgeVoxels) = Cardinality(EdgeCells)

\* A voxel with six occupied neighbours is left out, its neighbours are kept
C23_Witness ==
    /\ \E cell \in OccupiedCells : NeighbourCells(cell) \subseteq OccupiedCells
    /\ Len(edgeVoxels) = 6

(***************************************************************************)
(* The subsampling of the edge voxels on long edge lists: the edge voxels  *)
(* of a cloud strung along the x axis, one point per voxel.                *)
(***************************************************************************)
MaxEdgeExcess == 60

\* Lengths around the limit, and around twice the limit where the step
\* becomes 2
EdgeCounts ==
    ((EdgeSampleLimit - MaxEdgeExcess) .. (EdgeSampleLimit + MaxEdgeExcess))
        \cup {2 * EdgeSampleLimit - 1, 2 * EdgeSampleLimit}

LineEdgeVoxels(n) ==
    [i \in 1 .. n |-> [count |-> 1, p |-> Vec(VoxelSize * (i - 1) + 10, 0, 0)]]

InitEdgeSample ==
    /\ ViewerUnmounted
    /\ SamplerUnmounted
    /\ ClientUnused
    /\ OutlineUnmounted

\* Lines 518-526 applied to the edge list of a newly mounted cloud
SampleEdgeList ==
    /\ edgeVoxels = <<>>
    /\ \E n \in EdgeCounts :
        /\ edgeVoxels' = LineEdgeVoxels(n)
        /\ sampledEdges' = SampleEdges(edgeVoxels')
    /\ UNCHANGED <<outlinePoints, vertices, viewerVars, samplerVars, clientVars, uiVars>>

\* The component is unmounted
DropEdgeList ==
    /\ edgeVoxels # <<>>
    /\ edgeVoxels' = <<>>
    /\ sampledEdges' = <<>>
    /\ UNCHANGED <<outlinePoints, vertices, viewerVars, samplerVars, clientVars, uiVars>>

NextEdgeSample ==
    \/ SampleEdgeList
    \/ DropEdgeList

SpecEdgeSample == InitEdgeSample /\ [][NextEdgeSample]_vars

\* C6: the edge voxels retained by the subsampling never exceed 5000.
C6_SampledEdgesWithinLimit == Len(sampledEdges) <= EdgeSampleLimit

(***************************************************************************)
(* TrackingService and the viewer's connection handlers                    *)
(***************************************************************************)
MaxStaleSockets == 1

MaxReconnectTimers == 2

maxRetries == 5

retryDelay == 2000

RECURSIVE Pow(_, _)
Pow(b, e) == IF e = 0 THEN 1 ELSE b * Pow(b, e - 1)

\* A delay whose exponent is the count itself
ReconnectDelayOfCount(count) == (retryDelay * Pow(3, count)) \div Pow(2, count)

\* retryDelay * Math.pow(1.5, count - 1), in milliseconds
ReconnectDelay(count) == (retryDelay * Pow(3, count - 1)) \div Pow(2, count - 1)

\* A WebSocket that can still deliver events
IsLive(state) == state \in {"connecting", "open", "closing"}

\* An event without a payload of interest
Event(name, data) == [event |-> name, data |-> data, payload |-> <<>>]

\* _triggerEvent('persons', {timestamp: data.timestamp, persons: data.persons})
PersonsEvent(timestamp, persons) ==
    [event |-> "persons", data |-> "persons", payload |-> <<timestamp, persons>>]

RemoveAt(seq, i) == SubSeq(seq, 1, i - 1) \o SubSeq(seq, i + 1, Len(seq))

\* connect() returns early when this.socket && this.connected
ConnectReturnsEarly == socket # "null" /\ connected

\* connect(): a new WebSocket replaces this.socket; the replaced one keeps its
\* handlers while it is live
connect ==
    IF ConnectReturnsEarly
    THEN UNCHANGED <<socket, staleSockets>>
    ELSE /\ socket' = "connecting"
         /\ staleSockets' = IF IsLive(socket)
                            THEN Append(staleSockets, socket)
                            ELSE staleSockets

\* connect() can run without exceeding the sockets kept in the model
ConnectWithinBound ==
    ConnectReturnsEarly \/ ~IsLive(socket) \/ Len(staleSockets) < MaxStaleSockets

\* A reconnection that never gives up
attemptReconnectUnbounded(count, timers) ==
    /\ retryCount' = count + 1
    /\ reconnectTimers' = Append(timers, ReconnectDelay(count + 1))

\* _attemptReconnect(), after the count it is given
attemptReconnect(count, timers) ==
    IF count >= maxRetries
    THEN /\ retryCount' = count
         /\ reconnectTimers' = timers
    ELSE /\ retryCount' = count + 1
         /\ reconnectTimers' = Append(timers, ReconnectDelay(count + 1))

InitClient ==
    /\ ViewerUnmounted
    /\ SamplerUnmounted
    /\ OutlineUnmounted
    /\ ClientUnused

\* The viewer's effect in live mode: the handlers are registered and
\* trackingService.connect() is called
ViewerConnect ==
    /\ ~listening
    /\ ConnectWithinBound
    /\ listening' = TRUE
    /\ connect
    /\ emitted' = <<>>
    /\ received' = <<>>
    /\ UNCHANGED <<connected, retryCount, reconnectTimers, wsConnected>>
    /\ UNCHANGED <<viewerVars, samplerVars, outlineVars, uiVars>>

\* The effect's cleanup: the handlers are removed and
\* trackingService.disconnect() is called
ViewerDisconnect ==
    /\ listening
    /\ listening' = FALSE
    /\ IF socket # "null" /\ connected
       THEN /\ Len(staleSockets) < MaxStaleSockets \/ ~IsLive(socket)
            /\ staleSockets' = IF IsLive(socket)
                               THEN Append(staleSockets, "closing")
                               ELSE staleSockets
            /\ socket' = "null"
            /\ connected' = FALSE
       ELSE UNCHANGED <<socket, staleSockets, connected>>
    /\ emitted' = <<>>
    /\ received' = <<>>
    /\ UNCHANGED <<retryCount, reconnectTimers, wsConnected>>
    /\ UNCHANGED <<viewerVars, samplerVars, outlineVars, uiVars>>

\* onopen of this.socket (n = 0) or of a replaced socket (n > 0)
SocketOpen ==
    /\ \E n \in 0 .. Len(staleSockets) :
        IF n = 0
        THEN /\ socket = "connecting"
             /\ socket' = "open"
             /\ UNCHANGED staleSockets
        ELSE /\ staleSockets[n] = "connecting"
             /\ staleSockets' = [staleSockets EXCEPT ![n] = "open"]
             /\ UNCHANGED socket
    /\ connected' = TRUE
    /\ retryCount' = 0
    /\ emitted' = <<Event("connect", "undefined")>>
    /\ received' = <<>>
    /\ wsConnected' = IF listening THEN TRUE ELSE wsConnected
    /\ UNCHANGED <<reconnectTimers, listening>>
    /\ UNCHANGED <<viewerVars, samplerVars, outlineVars, uiVars>>

\* onclose of this.socket (n = 0) or of a replaced socket (n > 0)
SocketClose ==
    /\ Len(reconnectTimers) < MaxReconnectTimers
    /\ \E n \in 0 .. Len(staleSockets) :
        IF n = 0
        THEN /\ IsLive(socket)
             /\ socket' = "closed"
             /\ UNCHANGED staleSockets
        ELSE /\ staleSockets' = RemoveAt(staleSockets, n)
             /\ UNCHANGED socket
    /\ connected' = FALSE
    /\ emitted' = <<Event("disconnect", "undefined")>>
    /\ received' = <<>>
    /\ wsConnected' = IF listening THEN FALSE ELSE wsConnected
    /\ attemptReconnect(retryCount, reconnectTimers)
    /\ UNCHANGED listening
    /\ UNCHANGED <<viewerVars, samplerVars, outlineVars, uiVars>>

\* onerror of a live socket
SocketError ==
    /\ IsLive(socket) \/ staleSockets # <<>>
    /\ emitted' = <<Event("error", "connection error")>>
    /\ received' = <<>>
    /\ UNCHANGED <<socket, staleSockets, connected, retryCount, reconnectTimers,
                   listening, wsConnected>>
    /\ UNCHANGED <<viewerVars, samplerVars, outlineVars, uiVars>>

\* A field of a JSON object that may be absent
Absent == [present |-> FALSE, value |-> 0]

Field(v) == [present |-> TRUE, value |-> v]

\* Frames of the feed: text that is not JSON, the JSON value null, and JSON
\* objects with or without a type, a timestamp and a person list
JsonObject(type, timestamp, persons) ==
    [parses |-> TRUE, object |-> TRUE, type |-> type, timestamp |-> timestamp,
     persons |-> persons]

Frames ==
    {[parses |-> FALSE],
     [parses |-> TRUE, object |-> FALSE],
     JsonObject(Field("cameras_info"), Absent, Absent),
     JsonObject(Field("cameras_info"), Field(7), Field(<<"1">>)),
     JsonObject(Field("status"), Absent, Absent),
     JsonObject(Absent, Field(7), Absent),
     JsonObject(Absent, Field(7), Field(<<>>)),
     JsonObject(Absent, Field(7), Field(<<"1">>)),
     JsonObject(Absent, Field(0), Field(<<"1">>))}

\* Truthiness of data.timestamp (a number) and data.persons (an array)
TruthyNumber(f) == f.present /\ f.value # 0

TruthyArray(f) == f.present

\* _handleMessage(data)
handleMessage(data) ==
    IF data.type = Field("cameras_info")
    THEN <<Event("cameras", "cameras")>>
    ELSE IF TruthyNumber(data.timestamp) /\ TruthyArray(data.persons)
    THEN <<PersonsEvent(data.timestamp.value, data.persons.value)>>
    ELSE <<>>

\* onmessage: JSON.parse throws on text that is not JSON, data.type throws on
\* null; both are caught and reported
onmessage(frame) ==
    IF ~frame.parses \/ ~frame.object
    THEN <<Event("error", "parse error")>>
    ELSE handleMessage(frame)

\* onmessage of an open socket: JSON.parse and _handleMessage
SocketMessage ==
    /\ socket = "open" \/ \E n \in DOMAIN staleSockets : staleSockets[n] = "open"
    /\ \E frame \in Frames :
        /\ received' = frame
        /\ emitted' = onmessage(frame)
    /\ UNCHANGED <<socket, staleSockets, connected, retryCount, reconnectTimers,
                   listening, wsConnected>>
    /\ UNCHANGED <<viewerVars, samplerVars, outlineVars, uiVars>>

\* A reconnection timeout fires: connect()
ReconnectTimerFires ==
    /\ ConnectWithinBound
    /\ \E t \in DOMAIN reconnectTimers :
        reconnectTimers' = RemoveAt(reconnectTimers, t)
    /\ connect
    /\ emitted' = <<>>
    /\ received' = <<>>
    /\ UNCHANGED <<connected, retryCount, listening, wsConnected>>
    /\ UNCHANGED <<viewerVars, samplerVars, outlineVars, uiVars>>

NextClient ==
    \/ ViewerConnect
    \/ ViewerDisconnect
    \/ SocketOpen
    \/ SocketClose
    \/ SocketError
    \/ SocketMessage
    \/ ReconnectTimerFires

SpecClient == InitClient /\ [][NextClient]_vars

\* What a listener can observe of the client after a close: the events it
\* triggered and its connection fields
ClientObservation ==
    [emitted |-> emitted, connected |-> connected, retryCount |-> retryCount]

\* The observations after a close that scheduled a reconnection
OrdinaryDisconnects ==
    {[emitted |-> <<Event("disconnect", "undefined")>>, connected |-> FALSE,
      retryCount |-> k] : k \in 1 .. maxRetries}

\* The client has given up: the bound is reached, no reconnection is pending
\* and no socket is left that could open or close
RetriesExhausted ==
    /\ retryCount >= maxRetries
    /\ reconnectTimers = <<>>
    /\ ~IsLive(socket)
    /\ staleSockets = <<>>

\* C4: the close with which the client gives up is observable to the
\* listeners differently from an ordinary disconnect.
C4_ExhaustionObservable ==
    [][(SocketClose /\ RetriesExhausted')
           => ClientObservation' \notin OrdinaryDisconnects]_vars

\* A reconnection attempt is scheduled by the step
\* A frame that parses to an object with a timestamp and a person list
CarriesPersons(frame) ==
    /\ frame # <<>>
    /\ frame.parses
    /\ frame.object
    /\ frame.timestamp.present
    /\ frame.persons.present

\* C24: a frame that cannot be parsed raises an 'error' event and no 'persons'
\* or 'cameras' event and leaves socket, connected and retryCount unchanged;
\* every frame carrying a timestamp and a person list produces exactly one
\* 'persons' event with that timestamp and list.
C24_MessagesDispatched ==
    [][SocketMessage =>
        /\ ~received'.parses =>
              /\ emitted' = <<Event("error", "parse error")>>
              /\ UNCHANGED <<socket, staleSockets, connected, retryCount>>
        /\ CarriesPersons(received') =>
              emitted' = <<PersonsEvent(received'.timestamp.value,
                                        received'.persons.value)>>]_vars

AttemptScheduled == Len(reconnectTimers') > Len(reconnectTimers)

\* The delays as stated, for attempts 0 to 4
StatedDelays == <<2000, 3000, 4500, 6750, 10125>>

\* C14: the delay before reconnection attempt n, counting the attempts
\* scheduled since the last successful open from 0, is retryDelay x 1.5^n:
\* 2000, 3000, 4500, 6750, 10125 ms.
C14_BackoffDelays ==
    [][AttemptScheduled =>
          /\ retryCount + 1 \in DOMAIN StatedDelays
          /\ reconnectTimers' = Append(reconnectTimers, StatedDelays[retryCount + 1])
          /\ StatedDelays[retryCount + 1] * Pow(2, retryCount)
                 = retryDelay * Pow(3, retryCount)]_vars

\* The fifth attempt in a row is pending with its delay of 10125 ms
C14_Witness ==
    /\ retryCount = 5
    /\ reconnectTimers # <<>>
    /\ reconnectTimers[Len(reconnectTimers)] = 10125

\* C15: retryCount stays within 0..maxRetries; it changes only by a successful
\* open, which resets it to 0, and by the scheduling of an attempt, which
\* needs it below maxRetries and adds one, so at most maxRetries attempts are
\* scheduled without an open in between.
C15_RetryCountBounded ==
    /\ [](retryCount \in 0 .. maxRetries)
    /\ [][SocketOpen => retryCount' = 0]_vars
    /\ [][AttemptScheduled =>
             (retryCount < maxRetries /\ retryCount' = retryCount + 1)]_vars
    /\ [][retryCount' # retryCount =>
             \/ (connected' /\ retryCount' = 0)
             \/ (AttemptScheduled /\ retryCount' = retryCount + 1)]_vars

\* A close at the bound has scheduled nothing
C15_Witness ==
    /\ retryCount = maxRetries
    /\ emitted = <<Event("disconnect", "undefined")>>
    /\ reconnectTimers = <<>>
    /\ socket = "closed"

\* connect() got past its early return and created a WebSocket
SocketCreated == (ViewerConnect \/ ReconnectTimerFires) /\ ~ConnectReturnsEarly

\* C25: after the caller's disconnect() and until the caller's next connect()
\* the client schedules no reconnection, creates no socket and opens none.
C25_DisconnectEndsActivity ==
    [][(~listening /\ ~listening') =>
        ~(AttemptScheduled \/ SocketCreated \/ SocketOpen)]_vars

\* The sockets created by the client that are connecting or open
ActiveSockets ==
    {n \in 0 .. Len(staleSockets) :
        IF n = 0 THEN socket \in {"connecting", "open"}
        ELSE staleSockets[n] \in {"connecting", "open"}}

\* C26: at most one socket of the client is connecting or open at a time, and
\* connected holds only while this.socket is that open socket.
C26_OneActiveSocket ==
    /\ Cardinality(ActiveSockets) <= 1
    /\ connected => socket = "open"

(***************************************************************************)
(* The relations effect on feed data that may lack a field                 *)
(***************************************************************************)
\* Camera entries as stored in sceneData.cameras; the feed handler copies
\* cam.position and cam.direction without checking that they are present
ScoringCameraPool ==
    CameraPoses \cup {[direction |-> Vec(0, 0, -1)], [position |-> Vec(0, 0, 5)]}

\* Subject directions of the feed: unit and non-unit vectors
ScoringDirections == {Vec(0, 0, 1), Vec(0, 0, -2)}

\* Subjects of a persons payload, stored by setPersonsData(data.persons) as
\* they arrive
ScoringPersonPool ==
    {[position |-> p, direction |-> d] : p \in SubjectPositions, d \in ScoringDirections}
        \cup {[direction |-> Vec(0, 0, 1)], [position |-> Vec(0, 0, 0)]}

ScoringPersonIds == <<"1", "2", "3", "4">>

ScoringPersons(poses) ==
    [i \in DOMAIN poses |-> [id |-> ScoringPersonIds[i]] @@ poses[i]]

\* The inner loop body spreads camera.position, indexes camera.direction and
\* spreads person.position and person.direction: each throws a TypeError on
\* undefined
PairThrows(camera, person) ==
    \/ "position" \notin DOMAIN camera
    \/ "direction" \notin DOMAIN camera
    \/ "position" \notin DOMAIN person
    \/ "direction" \notin DOMAIN person

\* No try/catch surrounds the nested forEach: the first throwing pair aborts
\* the run before setCameraRelations
RunThrows(cameras, persons) ==
    \E i \in DOMAIN persons : \E j \in DOMAIN cameras :
        PairThrows(cameras[j].v, persons[i])

ScoreRun(cameras, persons) ==
    IF RunThrows(cameras, persons)
    THEN [thrown |-> TRUE, relations |-> EmptyObj]
    ELSE [thrown |-> FALSE,
          relations |-> calculateCameraPersonRelations(cameras, persons)]

InitScoring ==
    /\ ViewerUnmounted
    /\ SamplerUnmounted
    /\ OutlineUnmounted
    /\ ClientUnused

\* One run of the effect with a loaded scene and a non-empty subject list
RunRelationsEffect ==
    /\ scoredPersons = <<>>
    /\ \E frames \in SeqsUpTo(ScoringCameraPool, MaxCameras) :
       \E poses \in SeqsUpTo(ScoringPersonPool, MaxPersons) :
            /\ Len(poses) > 0
            /\ scoredCameras' = CamerasFromFrames(frames)
            /\ scoredPersons' = ScoringPersons(poses)
            /\ scoreOutcome' = ScoreRun(scoredCameras', scoredPersons')
    /\ UNCHANGED <<cameraFile, sceneData, personsData, cameraRelations,
                   recommendedCamera, useRealTracking, loading, pendingLoads,
                   handlerHasScene, memoPointsId, samplerRuns, outlineRuns,
                   staleFrame>>
    /\ UNCHANGED <<samplerVars, outlineVars, clientVars, uiVars>>

\* The next run starts from fresh local state
ClearScoring ==
    /\ scoredPersons # <<>>
    /\ scoredCameras' = <<>>
    /\ scoredPersons' = <<>>
    /\ scoreOutcome' = [thrown |-> FALSE, relations |-> <<>>]
    /\ UNCHANGED <<cameraFile, sceneData, personsData, cameraRelations,
                   recommendedCamera, useRealTracking, loading, pendingLoads,
                   handlerHasScene, memoPointsId, samplerRuns, outlineRuns,
                   staleFrame>>
    /\ UNCHANGED <<samplerVars, outlineVars, clientVars, uiVars>>

NextScoring ==
    \/ RunRelationsEffect
    \/ ClearScoring

SpecScoring == InitScoring /\ [][NextScoring]_vars

ScoredPairs == (DOMAIN scoredPersons) \X KeySet(scoredCameras)

ScoredRelation(pair) ==
    ObjGet(ObjGet(scoreOutcome.relations, scoredPersons[pair[1]].id), pair[2])

\* C13: a pair whose camera or subject lacks position or direction does not
\* throw; it is reported invisible with score 0, and every other pair of the
\* run is scored as usual.
C13_MissingFieldScoresZero ==
    scoredPersons # <<>> =>
        /\ ~scoreOutcome.thrown
        /\ \A pair \in ScoredPairs :
            LET camera == ObjGet(scoredCameras, pair[2])
                person == scoredPersons[pair[1]]
            IN  IF PairThrows(camera, person)
                THEN /\ ~ScoredRelation(pair).isVisible
                     /\ ScoredRelation(pair).qualityScore = 0
                ELSE ScoredRelation(pair) = Relation(camera, person)

\* C20: for every scored pair the angle score and the composite quality
\* score lie in 0..1, whatever the subject's direction vector.
C20_ScoresInUnitRange ==
    (scoredPersons # <<>> /\ ~scoreOutcome.thrown) =>
        \A pair \in ScoredPairs :
            /\ ScoredRelation(pair).angleScore \in 0 .. FixScale
            /\ ~ScoredRelation(pair).qualityIsNaN
            /\ ScoredRelation(pair).qualityScore \in 0 .. 10 * FixScale

(***************************************************************************)
(* CameraPreviewBar: calculateCameraScore                                  *)
(***************************************************************************)
\* Camera and subject positions; scores are in 1/FixScale of a point
PreviewCameraPositions ==
    {Vec(0, 0, 0), Vec(0, 0, 2), Vec(0, 0, 5), Vec(0, 0, 20), Vec(0, 0, 60),
     Vec(0, 0, 250)}

\* sceneData.cameras entries: direction may be absent
PreviewCameras ==
    {[position |-> p, direction |-> d] :
        p \in PreviewCameraPositions, d \in {Vec(0, 0, -1), Vec(0, 0, 1)}}
        \cup {[position |-> p] : p \in PreviewCameraPositions}

PreviewPersonPositions ==
    {Vec(0, 0, 0), Vec(1, 0, 0), Vec(0, 4, 0), Vec(3, 4, 0), Vec(0, 0, 2),
     Vec(0, 0, -9)}

\* const cameraDirection = camera.direction || [0, 0, -1]
PreviewDirection(camera) ==
    IF "direction" \in DOMAIN camera THEN camera.direction ELSE Vec(0, 0, -1)

\* distance = Math.sqrt(dx^2 + dy^2 + dz^2)
PreviewDistance(camera, personPosition) ==
    ISqrt(DistSq(camera.position, personPosition) * FixScale * FixScale)

\* the three distance bands
PreviewDistanceScore(distance) ==
    IF distance < 3 * FixScale
    THEN 40 * FixScale - (distance * 10) \div 3
    ELSE IF distance < 10 * FixScale
    THEN 30 * FixScale - ((distance - 3 * FixScale) * 10) \div 7
    ELSE 20 * FixScale - Min(10 * FixScale, (distance - 10 * FixScale) \div 20) * 10

\* angleScore = 30 * (dotProduct * 0.5 + 0.5), toPerson normalised by its
\* length (0/0 is NaN when the positions coincide)
PreviewAngleScore(camera, personPosition) ==
    LET distance == PreviewDistance(camera, personPosition)
        dot == (Dot(PreviewDirection(camera), Sub(personPosition, camera.position))
                    * FixScale * FixScale) \div distance
    IN  15 * (dot + FixScale)

CompositionScore == 25

\* Math.round(x): the nearest integer, halves upwards
MathRound(x) == (2 * x + FixScale) \div (2 * FixScale)

calculateCameraScore(camera, personPosition) ==
    LET distance == PreviewDistance(camera, personPosition)
        distanceScore == PreviewDistanceScore(distance)
    IN  IF distance = 0
        THEN [computed |-> TRUE, isNaN |-> TRUE,
              distanceScore |-> distanceScore, total |-> 0]
        ELSE [computed |-> TRUE, isNaN |-> FALSE,
              distanceScore |-> distanceScore,
              total |-> MathRound(Min(100 * FixScale,
                            distanceScore
                                + PreviewAngleScore(camera, personPosition)
                                + CompositionScore * FixScale))]

InitPreview ==
    /\ ViewerUnmounted
    /\ SamplerUnmounted
    /\ OutlineUnmounted
    /\ ClientUnused

\* One call from the preview bar's effect
ScoreCameraPreview ==
    /\ ~previewScore.computed
    /\ \E camera \in PreviewCameras, personPosition \in PreviewPersonPositions :
        /\ previewCamera' = camera
        /\ previewPerson' = personPosition
        /\ previewScore' = calculateCameraScore(camera, personPosition)
    /\ UNCHANGED <<viewerVars, samplerVars, outlineVars, clientVars, listenerVars,
                   trackVars>>

ClearCameraPreview ==
    /\ previewScore.computed
    /\ previewCamera' = <<>>
    /\ previewPerson' = <<>>
    /\ previewScore' = NoScore
    /\ UNCHANGED <<viewerVars, samplerVars, outlineVars, clientVars, listenerVars,
                   trackVars>>

NextPreview ==
    \/ ScoreCameraPreview
    \/ ClearCameraPreview

SpecPreview == InitPreview /\ [][NextPreview]_vars

\* C21: calculateCameraScore returns an integer in 0..100 for every camera
\* and subject position, and its distance sub-score lies in 0..40.
C21_PreviewScoreInRange ==
    previewScore.computed =>
        /\ ~previewScore.isNaN
        /\ previewScore.total \in 0 .. 100
        /\ previewScore.distanceScore \in 0 .. 40 * FixScale

(***************************************************************************)
(* TrackingService: on, off and _triggerEvent                              *)
(***************************************************************************)
MaxListeners == 2

\* Callback functions by identity; one of them throws when called
Callbacks == {"cbA", "cbB", "cbThrows"}

Throws(cb) == cb = "cbThrows"

\* Event names passed to on(); "status" is not a key of eventListeners
OnEvents == ListenerEvents \cup {"status"}

\* on(event, callback): push, or a warning for an unknown event
on(listeners, event, cb) ==
    IF event \in DOMAIN listeners
    THEN [listeners EXCEPT ![event] = Append(@, cb)]
    ELSE listeners

\* Array.prototype.filter(cb => cb !== callback)
RECURSIVE FilterOut(_, _)
FilterOut(cbs, cb) ==
    IF cbs = <<>> THEN <<>>
    ELSE IF cbs[1] = cb THEN FilterOut(Tail(cbs), cb)
         ELSE <<cbs[1]>> \o FilterOut(Tail(cbs), cb)

\* off(event, callback), which the function returned by on() calls
off(listeners, event, cb) ==
    IF event \in DOMAIN listeners
    THEN [listeners EXCEPT ![event] = FilterOut(@, cb)]
    ELSE listeners

\* A forEach without the try/catch: the first exception ends the loop
RECURSIVE InvokeUncaught(_, _, _)
InvokeUncaught(cbs, i, log) ==
    IF i > Len(cbs) THEN [invoked |-> log, escaped |-> FALSE]
    ELSE IF Throws(cbs[i])
         THEN [invoked |-> Append(log, cbs[i]), escaped |-> TRUE]
         ELSE InvokeUncaught(cbs, i + 1, Append(log, cbs[i]))

\* forEach(callback => { try { callback(data) } catch (error) { log } })
RECURSIVE InvokeEach(_, _, _)
InvokeEach(cbs, i, log) ==
    IF i > Len(cbs) THEN [invoked |-> log, escaped |-> FALSE]
    ELSE InvokeEach(cbs, i + 1, Append(log, cbs[i]))

\* _triggerEvent(event, data)
triggerEvent(listeners, event) ==
    IF event \in DOMAIN listeners
    THEN InvokeEach(listeners[event], 1, <<>>)
    ELSE [invoked |-> <<>>, escaped |-> FALSE]

InitListeners ==
    /\ ViewerUnmounted
    /\ SamplerUnmounted
    /\ OutlineUnmounted
    /\ ClientUnused

\* A caller registers a callback
RegisterListener ==
    /\ \E event \in OnEvents, cb \in Callbacks :
        /\ event \in DOMAIN eventListeners => Len(eventListeners[event]) < MaxListeners
        /\ eventListeners' = on(eventListeners, event, cb)
        /\ lastCall' = [op |-> "on", event |-> event, cb |-> cb]
    /\ invoked' = <<>>
    /\ escaped' = FALSE
    /\ reconnectAttempted' = FALSE
    /\ UNCHANGED <<viewerVars, samplerVars, outlineVars, clientVars, previewVars,
                   trackVars>>

\* A caller calls the function that on(event, cb) returned
Unsubscribe ==
    /\ \E event \in OnEvents, cb \in Callbacks :
        /\ eventListeners' = off(eventListeners, event, cb)
        /\ lastCall' = [op |-> "off", event |-> event, cb |-> cb]
    /\ invoked' = <<>>
    /\ escaped' = FALSE
    /\ reconnectAttempted' = FALSE
    /\ UNCHANGED <<viewerVars, samplerVars, outlineVars, clientVars, previewVars,
                   trackVars>>

\* _handleMessage dispatches a persons frame
DispatchPersons ==
    /\ invoked' = triggerEvent(eventListeners, "persons").invoked
    /\ escaped' = triggerEvent(eventListeners, "persons").escaped
    /\ reconnectAttempted' = FALSE
    /\ lastCall' = [op |-> "trigger", event |-> "persons", cb |-> "none"]
    /\ UNCHANGED eventListeners
    /\ UNCHANGED <<viewerVars, samplerVars, outlineVars, clientVars, previewVars,
                   trackVars>>

\* onclose: _triggerEvent('disconnect') and then _attemptReconnect(), which
\* is reached only if the former returns
DispatchClose ==
    /\ invoked' = triggerEvent(eventListeners, "disconnect").invoked
    /\ escaped' = triggerEvent(eventListeners, "disconnect").escaped
    /\ reconnectAttempted' = ~escaped'
    /\ lastCall' = [op |-> "close", event |-> "disconnect", cb |-> "none"]
    /\ UNCHANGED eventListeners
    /\ UNCHANGED <<viewerVars, samplerVars, outlineVars, clientVars, previewVars,
                   trackVars>>

NextListeners ==
    \/ RegisterListener
    \/ Unsubscribe
    \/ DispatchPersons
    \/ DispatchClose

SpecListeners == InitListeners /\ [][NextListeners]_vars

\* C27: a listener that throws does not keep the remaining listeners of the
\* event from being called, nor the reconnection attempt after a 'disconnect'
\* event from being made.
C27_ThrowingListenerIsContained ==
    /\ [][(DispatchPersons \/ DispatchClose) =>
            /\ invoked' = eventListeners[lastCall'.event]
            /\ ~escaped']_vars
    /\ [][DispatchClose => reconnectAttempted']_vars

\* A 'disconnect' listener threw, a later one was still called, and the
\* reconnection attempt followed
C27_Witness ==
    /\ lastCall.op = "close"
    /\ Len(invoked) = 2
    /\ Throws(invoked[1])
    /\ ~Throws(invoked[2])
    /\ reconnectAttempted

Registrations(listeners, event, cb) ==
    Cardinality({i \in DOMAIN listeners[event] : listeners[event][i] = cb})

MaxArrivals == 102

\* updated[person.id].length > 100, slice(-100)
HistoryLimit == 100

\* The n-th position a subject receives, told apart by its x coordinate
ArrivingPosition(n) == Vec(n, 0, 0)

\* Subject ids of the dummy data and of the feed
SimPersonIds == <<"person_1">>

LivePayloads == {<<"person_1">>, <<"person_1", "2">>}

\* Array.prototype.slice(0, n)
SliceFirst(seq, n) == SubSeq(seq, 1, Min(n, Len(seq)))

\* Array.prototype.slice(-n)
SliceLast(seq, n) == SubSeq(seq, Max(1, Len(seq) - n + 1), Len(seq))

\* A limit that keeps the oldest entries
LimitHistoryOldest(entries) ==
    IF Len(entries) > HistoryLimit THEN SliceFirst(entries, HistoryLimit) ELSE entries

\* if (updated[id].length > 100) updated[id] = updated[id].slice(-100)
LimitHistory(entries) ==
    IF Len(entries) > HistoryLimit THEN SliceLast(entries, HistoryLimit) ELSE entries

\* The body of both setTrajectoryHistory updaters for one subject
PushHistory(history, id, time, position) ==
    LET current == IF id \in DOMAIN history THEN history[id] ELSE <<>>
    IN  FnSet(history, id,
              LimitHistory(Append(current, [time |-> time, position |-> position])))

PushArrival(arrived, id, position) ==
    FnSet(arrived, id,
          Append(IF id \in DOMAIN arrived THEN arrived[id] ELSE <<>>, position))

ArrivalCount(arrived, id) == IF id \in DOMAIN arrived THEN Len(arrived[id]) ELSE 0

\* data.persons.forEach(person => push and limit)
RECURSIVE PushAll(_, _, _)
PushAll(history, arrived, ids) ==
    IF ids = <<>> THEN [history |-> history, arrived |-> arrived]
    ELSE LET id       == Head(ids)
             position == ArrivingPosition(ArrivalCount(arrived, id))
         IN  PushAll(PushHistory(history, id, 0, position),
                     PushArrival(arrived, id, position), Tail(ids))

\* history[person.id] = [{time: 0, position}] for every person
SeededHistory(ids) ==
    [id \in Range(ids) |-> <<[time |-> 0, position |-> ArrivingPosition(0)]>>]

SeededArrivals(ids) == [id \in Range(ids) |-> <<ArrivingPosition(0)>>]

\* SceneViewerTest after loadData in simulated mode (loadPersonsData)
InitHistory ==
    /\ mounted = "viewer"
    /\ arrivalLimit = MaxArrivals
    /\ trajMode = "sim"
    /\ trajPersons = SimPersonIds
    /\ trajectoryHistory = SeededHistory(SimPersonIds)
    /\ arrivedPositions = SeededArrivals(SimPersonIds)
    /\ AppUnmounted

\* handlePersons: setPersonsData(data.persons) and the history update
LivePersons ==
    /\ mounted = "viewer"
    /\ trajMode = "live"
    /\ \E ids \in LivePayloads :
        /\ \A i \in DOMAIN ids : ArrivalCount(arrivedPositions, ids[i]) < arrivalLimit
        /\ trajPersons' = ids
        /\ trajectoryHistory' = PushAll(trajectoryHistory, arrivedPositions, ids).history
        /\ arrivedPositions' = PushAll(trajectoryHistory, arrivedPositions, ids).arrived
    /\ UNCHANGED <<mounted, arrivalLimit, trajMode, appVars>>
    /\ UNCHANGED <<viewerVars, samplerVars, outlineVars, clientVars, previewVars,
                   listenerVars>>

\* The movement interval: every person of personsData moves and its new
\* position is pushed
SimulatedTick ==
    /\ mounted = "viewer"
    /\ trajMode = "sim"
    /\ trajPersons # <<>>
    /\ \A i \in DOMAIN trajPersons :
          ArrivalCount(arrivedPositions, trajPersons[i]) < arrivalLimit
    /\ trajectoryHistory' =
          PushAll(trajectoryHistory, arrivedPositions, trajPersons).history
    /\ arrivedPositions' =
          PushAll(trajectoryHistory, arrivedPositions, trajPersons).arrived
    /\ UNCHANGED <<mounted, arrivalLimit, trajMode, trajPersons, appVars>>
    /\ UNCHANGED <<viewerVars, samplerVars, outlineVars, clientVars, previewVars,
                   listenerVars>>

\* toggleTracking and the reload that follows: in simulated mode
\* loadPersonsData replaces personsData and the history
ToggleHistoryMode ==
    /\ mounted = "viewer"
    /\ IF trajMode = "sim"
       THEN /\ trajMode' = "live"
            /\ UNCHANGED <<trajPersons, trajectoryHistory, arrivedPositions>>
       ELSE /\ trajMode' = "sim"
            /\ trajPersons' = SimPersonIds
            /\ trajectoryHistory' = SeededHistory(SimPersonIds)
            /\ arrivedPositions' = SeededArrivals(SimPersonIds)
    /\ UNCHANGED <<mounted, arrivalLimit, appVars>>
    /\ UNCHANGED <<viewerVars, samplerVars, outlineVars, clientVars, previewVars,
                   listenerVars>>

\* resetSimulation: the history is rebuilt from personsData
ResetSimulation ==
    /\ mounted = "viewer"
    /\ trajectoryHistory' = SeededHistory(trajPersons)
    /\ arrivedPositions' = SeededArrivals(trajPersons)
    /\ UNCHANGED <<mounted, arrivalLimit, trajMode, trajPersons, appVars>>
    /\ UNCHANGED <<viewerVars, samplerVars, outlineVars, clientVars, previewVars,
                   listenerVars>>

(***************************************************************************)
(* App: structure tracking                                                 *)
(***************************************************************************)
MaxPolls == 2

\* maxTrailLength
maxTrailLength == 100

\* Ids of sceneData.structures
StructureIds == {1, 2}

\* selectedStructure.center
StructureCenter(id) == ArrivingPosition(0)

\* App's tracking state as one value
AppState ==
    [enabled |-> trackingEnabled, ids |-> trackedStructureIds,
     positions |-> structurePositions, trails |-> structureTrails,
     arrived |-> arrivedTrail]

\* The setters of one handler, applied together
SetAppState(st) ==
    /\ trackingEnabled' = st.enabled
    /\ trackedStructureIds' = st.ids
    /\ structurePositions' = st.positions
    /\ structureTrails' = st.trails
    /\ arrivedTrail' = st.arrived

\* prev.filter(id => id !== structureId)
RECURSIVE FilterId(_, _)
FilterId(ids, id) ==
    IF ids = <<>> THEN <<>>
    ELSE IF Head(ids) = id THEN FilterId(Tail(ids), id)
         ELSE <<Head(ids)>> \o FilterId(Tail(ids), id)

\* resetTrackingData
resetTrackingData(st) ==
    [enabled |-> FALSE, ids |-> <<>>, positions |-> EmptyFn, trails |-> EmptyFn,
     arrived |-> EmptyFn]

\* The three setters that drop a structure
DropStructure(st, id) ==
    [st EXCEPT !.ids = FilterId(@, id), !.positions = FnDel(@, id),
               !.trails = FnDel(@, id), !.arrived = FnDel(@, id)]

\* The branch that adds a structure and seeds its position and trail
AddStructure(st, id, sceneLoaded) ==
    IF sceneLoaded /\ id \in StructureIds
    THEN [st EXCEPT !.ids = Append(@, id),
                    !.positions = FnSet(@, id, StructureCenter(id)),
                    !.trails = FnSet(@, id, <<StructureCenter(id)>>),
                    !.arrived = FnSet(@, id, <<StructureCenter(id)>>)]
    ELSE [st EXCEPT !.ids = Append(@, id)]

\* handleStructureSelect
handleStructureSelect(st, id, sceneLoaded) ==
    IF st.enabled THEN st
    ELSE IF id \in Range(st.ids) THEN DropStructure(st, id)
         ELSE AddStructure(st, id, sceneLoaded)

\* startTracking
startTracking(st) ==
    IF st.ids = <<>> THEN st ELSE [st EXCEPT !.enabled = TRUE]

\* stopTracking
stopTracking(st) == [st EXCEPT !.enabled = FALSE]

\* A removal without the trackingEnabled guard
removeWhileTracking(st, id) == DropStructure(st, id)

\* removeTrackedStructure
removeTrackedStructure(st, id) ==
    IF st.enabled THEN st ELSE DropStructure(st, id)

\* clearAllTrackedStructures
clearAllTrackedStructures(st) ==
    IF st.enabled THEN st ELSE resetTrackingData(st)

\* updateTrailForStructure
updateTrailForStructure(trails, id, newPosition) ==
    LET currentTrail == IF id \in DOMAIN trails THEN trails[id] ELSE <<>>
        updatedTrail == Append(currentTrail, newPosition)
    IN  IF Len(updatedTrail) > maxTrailLength
        THEN FnSet(trails, id, SliceLast(updatedTrail, maxTrailLength))
        ELSE FnSet(trails, id, updatedTrail)

\* setStructurePositions and updateTrailForStructure for the positions of one
\* response, in Object.entries order
RECURSIVE ApplyPositions(_, _)
ApplyPositions(st, ids) ==
    IF ids = <<>> THEN st
    ELSE LET id       == Head(ids)
             position == ArrivingPosition(ArrivalCount(st.arrived, id))
         IN  ApplyPositions(
                 [st EXCEPT !.positions = FnSet(@, id, position),
                            !.trails = updateTrailForStructure(@, id, position),
                            !.arrived = PushArrival(@, id, position)],
                 Tail(ids))

\* The ids a response carries: the tracked one, or some of the tracked ones
\* in the batch case
PollResponses(ids) ==
    IF Len(ids) > 1
    THEN {r \in {<<1>>, <<2>>, <<1, 2>>} : Range(r) \subseteq Range(ids)}
    ELSE {ids}

AppCalled(op, id) == appCall' = [op |-> op, id |-> id]

\* loadMockSceneData and the other loaders: setSceneData, resetTrackingData
AppLoadScene ==
    /\ mounted = "app"
    /\ appSceneLoaded' = TRUE
    /\ SetAppState(resetTrackingData(AppState))
    /\ AppCalled("load", 0)
    /\ UNCHANGED <<mounted, arrivalLimit, historyVars>>
    /\ UNCHANGED <<viewerVars, samplerVars, outlineVars, clientVars, previewVars,
                   listenerVars>>

HandleStructureSelect ==
    /\ mounted = "app"
    /\ \E id \in StructureIds :
        /\ SetAppState(handleStructureSelect(AppState, id, appSceneLoaded))
        /\ AppCalled("select", id)
    /\ UNCHANGED <<mounted, arrivalLimit, historyVars, appSceneLoaded>>
    /\ UNCHANGED <<viewerVars, samplerVars, outlineVars, clientVars, previewVars,
                   listenerVars>>

StartTracking ==
    /\ mounted = "app"
    /\ SetAppState(startTracking(AppState))
    /\ AppCalled("start", 0)
    /\ UNCHANGED <<mounted, arrivalLimit, historyVars, appSceneLoaded>>
    /\ UNCHANGED <<viewerVars, samplerVars, outlineVars, clientVars, previewVars,
                   listenerVars>>

StopTracking ==
    /\ mounted = "app"
    /\ SetAppState(stopTracking(AppState))
    /\ AppCalled("stop", 0)
    /\ UNCHANGED <<mounted, arrivalLimit, historyVars, appSceneLoaded>>
    /\ UNCHANGED <<viewerVars, samplerVars, outlineVars, clientVars, previewVars,
                   listenerVars>>

RemoveTrackedStructure ==
    /\ mounted = "app"
    /\ \E id \in StructureIds :
        /\ SetAppState(removeTrackedStructure(AppState, id))
        /\ AppCalled("remove", id)
    /\ UNCHANGED <<mounted, arrivalLimit, historyVars, appSceneLoaded>>
    /\ UNCHANGED <<viewerVars, samplerVars, outlineVars, clientVars, previewVars,
                   listenerVars>>

ClearAllTrackedStructures ==
    /\ mounted = "app"
    /\ SetAppState(clearAllTrackedStructures(AppState))
    /\ AppCalled("clear", 0)
    /\ UNCHANGED <<mounted, arrivalLimit, historyVars, appSceneLoaded>>
    /\ UNCHANGED <<viewerVars, samplerVars, outlineVars, clientVars, previewVars,
                   listenerVars>>

\* One tick of the tracking interval and its response
PollPositions ==
    /\ mounted = "app"
    /\ trackingEnabled
    /\ trackedStructureIds # <<>>
    /\ appSceneLoaded
    /\ \E response \in PollResponses(trackedStructureIds) :
        /\ \A i \in DOMAIN response :
              ArrivalCount(arrivedTrail, response[i]) < arrivalLimit
        /\ SetAppState(ApplyPositions(AppState, response))
    /\ AppCalled("poll", 0)
    /\ UNCHANGED <<mounted, arrivalLimit, historyVars, appSceneLoaded>>
    /\ UNCHANGED <<viewerVars, samplerVars, outlineVars, clientVars, previewVars,
                   listenerVars>>

InitApp ==
    /\ ViewerFresh
    /\ SamplerUnmounted
    /\ OutlineUnmounted
    /\ ClientUnused
    /\ mounted = "app"
    /\ arrivalLimit = MaxPolls
    /\ HistoryIdle
    /\ AppUnmounted

NextApp ==
    \/ AppLoadScene
    \/ HandleStructureSelect
    \/ StartTracking
    \/ StopTracking
    \/ RemoveTrackedStructure
    \/ ClearAllTrackedStructures
    \/ PollPositions

SpecApp == InitApp /\ [][NextApp]_vars

\* App with a scene loaded and tracking started on one or on both structures
InitTrails ==
    /\ mounted = "app"
    /\ arrivalLimit = MaxArrivals
    /\ HistoryIdle
    /\ appSceneLoaded = TRUE
    /\ trackedStructureIds \in {<<1>>, <<1, 2>>}
    /\ structurePositions = [id \in Range(trackedStructureIds) |-> StructureCenter(id)]
    /\ structureTrails = [id \in Range(trackedStructureIds) |-> <<StructureCenter(id)>>]
    /\ arrivedTrail = [id \in Range(trackedStructureIds) |-> <<StructureCenter(id)>>]
    /\ trackingEnabled = TRUE
    /\ appCall = [op |-> "start", id |-> 0]

InitTrajectory ==
    /\ ViewerFresh
    /\ SamplerUnmounted
    /\ OutlineUnmounted
    /\ ClientUnused
    /\ InitHistory \/ InitTrails

NextTrajectory ==
    \/ LivePersons
    \/ SimulatedTick
    \/ ToggleHistoryMode
    \/ ResetSimulation
    \/ PollPositions

SpecTrajectory == InitTrajectory /\ [][NextTrajectory]_vars

HistoryPositions(entries) == [i \in DOMAIN entries |-> entries[i].position]

\* C29: every per-subject history holds at most 100 entries, and they are the
\* positions most recently received for that subject, in arrival order.
C29_HistoriesHoldLatest ==
    /\ \A id \in DOMAIN trajectoryHistory :
        /\ Len(trajectoryHistory[id]) <= 100
        /\ HistoryPositions(trajectoryHistory[id])
              = SliceLast(arrivedPositions[id], 100)
    /\ \A id \in DOMAIN structureTrails :
        /\ Len(structureTrails[id]) <= 100
        /\ structureTrails[id] = SliceLast(arrivedTrail[id], 100)

\* A live subject has received 101 positions: its history holds 100 of them
\* and the first one received is gone
C29_Witness ==
    /\ trajMode = "live"
    /\ "2" \in DOMAIN arrivedPositions
    /\ Len(arrivedPositions["2"]) = 101
    /\ Len(trajectoryHistory["2"]) = 100
    /\ trajectoryHistory["2"][1].position = ArrivingPosition(1)

\* C30: while tracking is enabled select, remove and clear-all leave the
\* tracked ids, positions and trails unchanged, and tracking is never enabled
\* with no structure tracked.
C30_TrackingFreezesSelection ==
    /\ [][(trackingEnabled /\ (\/ HandleStructureSelect
                               \/ RemoveTrackedStructure
                               \/ ClearAllTrackedStructures)) =>
            UNCHANGED <<trackedStructureIds, structurePositions, structureTrails,
                        trackingEnabled>>]_vars
    /\ [](trackingEnabled => trackedStructureIds # <<>>)

\* A removal was asked for while tracking and the structure is still tracked
C30_Witness ==
    /\ trackingEnabled
    /\ appCall.op = "remove"
    /\ appCall.id \in Range(trackedStructureIds)
    /\ appCall.id \in DOMAIN structureTrails
    /\ Len(structureTrails[appCall.id]) > 1

====
